---- MODULE Spec2Model ----
(***************************************************************************)
(* A model of the reactorcide runner core (runnerlib): the secret masker,  *)
(* the seeding of the masker for a run, the live registration channel      *)
(* while the child's output is streamed, and the plugin lifecycle of a     *)
(* run.  Strings are sequences of one-character strings.                   *)
(*                                                                         *)
(* Each part of the program has its own specification (SpecMask,           *)
(* SpecThreads, ...); the variables of the other parts stay at their       *)
(* initial value.                                                          *)
(***************************************************************************)
EXTENDS Integers, Sequences, FiniteSets, TLC

VARIABLES
  secrets,      \* SecretMasker._secrets: the set of registered strings
  maskText,     \* the text argument of the observed mask_string call
  masked,       \* the value that call returned, NoResult before it returns
  lock,         \* SecretMasker._lock: the thread holding it, or Free
  thr,          \* per thread: the call it is in and its program point
  returned,     \* history: the values whose register_secret call has returned
  child,        \* the job process: operations done, what it waits for, exit
  outPipe,      \* lines the child wrote to stdout that the parent has not read
  errPipe,      \* the same for stderr
  sockReq,      \* a request on the socket, NoReq when none
  sockResp,     \* the server's response on its way to the child, NoResp when none
  registered_count, \* SecretRegistrationServer._registered_count
  acked,        \* history: the values whose ok response the child has received
  par,          \* the parent's streaming loop: program point and the lines held
  emitted,      \* history: the lines the parent has logged
  cfg,          \* the run's inputs: mode, secrets_list, job env, files, store
  env,          \* job_env_vars / env_vars: the environment handed to the job
  default_secrets, \* the module-level _default_masker's set (secrets.py)
  substituted,  \* history: the values put in place of ${secret:..} references
  seedPc,       \* where the run is between reading its config and the job
  seedLog,      \* history: the job's lines as logged through the run's masker
  run,          \* the command line of `run`: container mode, dry run, valid config
  runPc,        \* the statement `run` / run_container is about to execute
  dispatched,   \* history: every plugin-phase dispatch, in order
  pending,      \* what is leaving run_container's inner try: a return or a raise
  primary,      \* history: `pending` as it was when the finally block was entered
  rc_result,    \* what run_container returned or raised to its caller
  exit_status,  \* the code of the typer.Exit that ends `run`, NoExit before
  secret_server, \* the SecretRegistrationServer: "none", "started" or "stopped"
  metadata,     \* the metadata dict of each PluginContext object of the run
  process,      \* run_container's child: its state and where an interrupt hit
  objects,      \* the Plugin objects created so far: name, priority, phases, enabled
  plugins,      \* PluginManager.plugins: per name the object registered, 0 if none
  phase_plugins, \* PluginManager.phase_plugins: per phase the list of objects
  invoked,      \* the last execute_phase call: phase, objects invoked, in order
  disabledNames, \* history: names disabled by disable_plugin and not enabled since
  running,      \* SecretRegistrationServer.running
  server_socket, \* the listener: "none", "unbound", "listening" or "closed"
  socket_file,  \* whether a file exists at socket_path
  serve_threads, \* the _serve threads started so far: "select", "handle", "outlived" (in a handler when stop closed the listener), "exited"
  lastCall,     \* history: the last start/stop call that returned
  countAtStop,  \* history: _registered_count when stop() last returned
  conn,         \* per client of the socket: its connection and what it has sent
  backlog,      \* the connections waiting in the listener's queue
  handler,      \* the _serve thread: in select, or where in _handle_client
  server_count, \* SecretRegistrationServer._registered_count
  triggers,     \* WorkflowContext.triggers: the queued JobTrigger objects
  api,          \* the coordinator settings of the context and the answer a POST would get
  triggers_file, \* what a reader finds at WorkflowContext.triggers_file
  flow,         \* the job script: its program point and flush_triggers' locals
  flowHist,     \* history: the file before a flush and at scope exit, the exception
  glob,         \* one glob match: the pattern, the target, and the result once computed
  ev,           \* the inputs of one eval run: definitions, event type, branch, changed files
  evalPc,       \* the step the eval command is about to execute
  evalOut,       \* what the eval run produced: matched definitions, triggers, exit code, file
  git, \* the clone, the remote and the git commands run by _prepare_git_source
  gitPc, \* position in _prepare_git_source
  prep, \* one prepare_source / prepare_ci_source call: its configuration, the destination subtree, the outcome
  prepPc, \* position in prepare_source and the strategy it dispatches to
  val, \* one validation: the configuration, the environment, how validate_config is called, what came of it
  valPc, \* position in cli.run around validation, or in a direct validate_config call
  ctxs, \* two WorkflowContext objects in two processes: each one's queue, program point and flush_triggers locals
  shared_file \* the triggers file both contexts were given

maskVars == <<maskText, masked>>
threadVars == <<lock, thr, returned>>
streamVars == <<child, outPipe, errPipe, sockReq, sockResp, registered_count,
                acked, par, emitted>>
seedVars == <<cfg, env, default_secrets, substituted, seedPc, seedLog>>
runVars == <<run, runPc, dispatched, pending, primary, rc_result, exit_status,
             secret_server, metadata, process>>
pluginVars == <<objects, plugins, phase_plugins, invoked, disabledNames>>
cycleVars == <<running, server_socket, socket_file, serve_threads, lastCall,
               countAtStop>>
serverVars == <<conn, backlog, handler, server_count>>
flowVars == <<triggers, api, triggers_file, flow, flowHist>>
evalVars == <<glob, ev, evalPc, evalOut>>
gitVars == <<git, gitPc>>
prepVars == <<prep, prepPc>>
valVars == <<val, valPc>>
raceVars == <<ctxs, shared_file>>
vars == <<secrets, maskVars, threadVars, streamVars, seedVars, runVars,
          pluginVars, cycleVars, serverVars,
          flowVars,
          evalVars,
          gitVars,
          prepVars,
          valVars,
          raceVars>>

\* What the actions of one part leave alone.
NotMask == <<threadVars, streamVars, seedVars, runVars,
  pluginVars, cycleVars, serverVars,
  flowVars,
  evalVars,
  gitVars,
  prepVars,
  valVars,
  raceVars>>
NotThreads == <<maskVars, streamVars, seedVars, runVars,
  pluginVars, cycleVars, serverVars,
  flowVars,
  evalVars,
  gitVars,
  prepVars,
  valVars,
  raceVars>>
NotStream == <<maskVars, threadVars, seedVars, runVars,
  pluginVars, cycleVars, serverVars,
  flowVars,
  evalVars,
  gitVars,
  prepVars,
  valVars,
  raceVars>>
NotSeed == <<maskVars, threadVars, streamVars, runVars,
  pluginVars, cycleVars, serverVars,
  flowVars,
  evalVars,
  gitVars,
  prepVars,
  valVars,
  raceVars>>
NotRun == <<maskVars, threadVars, streamVars, seedVars, pluginVars, cycleVars,
           serverVars,
  flowVars,
  evalVars,
  gitVars,
  prepVars,
  valVars,
  raceVars>>
NotPlugins == <<maskVars, threadVars, streamVars, seedVars, runVars, cycleVars,
               serverVars,
  flowVars,
  evalVars,
  gitVars,
  prepVars,
  valVars,
  raceVars>>
NotCycle == <<maskVars, threadVars, streamVars, seedVars, runVars, pluginVars,
             serverVars,
  flowVars,
  evalVars,
  gitVars,
  prepVars,
  valVars,
  raceVars>>
NotServer == <<maskVars, threadVars, streamVars, seedVars, runVars, pluginVars,
              cycleVars,
  flowVars,
  evalVars,
  gitVars,
  prepVars,
  valVars,
  raceVars>>
NotFlow == <<maskVars, threadVars, streamVars, seedVars, runVars,
  pluginVars, cycleVars, serverVars,
  evalVars,
  gitVars,
  prepVars,
  valVars,
  raceVars>>
NotEval == <<maskVars, threadVars, streamVars, seedVars, runVars,
  pluginVars, cycleVars, serverVars, flowVars,
  gitVars,
  prepVars,
  valVars,
  raceVars>>
NotGit == <<maskVars, threadVars, streamVars, seedVars, runVars,
  pluginVars, cycleVars, serverVars, flowVars, evalVars,
  prepVars,
  valVars,
  raceVars>>
NotPrep == <<maskVars, threadVars, streamVars, seedVars, runVars,
  pluginVars, cycleVars, serverVars, flowVars, evalVars, gitVars,
  valVars,
  raceVars>>
NotVal == <<maskVars, threadVars, streamVars, seedVars, runVars,
  pluginVars, cycleVars, serverVars, flowVars, evalVars, gitVars, prepVars,
  raceVars>>
NotRace == <<maskVars, threadVars, streamVars, seedVars, runVars,
  pluginVars, cycleVars, serverVars, flowVars, evalVars, gitVars, prepVars, valVars>>

(***************************************************************************)
(* Bounds of the model.                                                    *)
(***************************************************************************)
MaxSecretLen == 3     \* longest registered value
MaxSecrets == 2       \* most values registered with one masker
MaxTextLen == 4       \* longest text given to mask_string
MaxCalls == 2         \* calls one thread makes in the thread model

\* The characters texts and values are built from: the first character of
\* the redaction text and three of its inner characters, so that a value can
\* lie inside the redaction text, straddle its edge, or do neither.
Alphabet == {"[", "R", "E", "D"}

Strings(n) == UNION {[1..k -> Alphabet] : k \in 0..n}
Values == Strings(MaxSecretLen) \ {<<>>}
Texts == Strings(MaxTextLen)

\* v occurs in t (Python's `v in t` for strings).
Contains(t, v) ==
  \E i \in 0..(Len(t) - Len(v)) : SubSeq(t, i + 1, i + Len(v)) = v

\* The orders in which `for secret in self._secrets` can visit a set: the
\* iteration order of a Python set is not defined by its contents.
Orders(S) ==
  {o \in [1..Cardinality(S) -> S] :
     \A i, j \in 1..Cardinality(S) : o[i] = o[j] => i = j}

(***************************************************************************)
(* SecretMasker (secrets.py).                                              *)
(***************************************************************************)
redaction_text == <<"[", "R", "E", "D", "A", "C", "T", "E", "D", "]">>
min_secret_length == 3

NoResult == <<"<none>">>
Free == "free"

\* re.sub(re.escape(pattern), repl, string) for a non-empty literal pattern
\* and a replacement without escapes: the non-overlapping occurrences,
\* leftmost first, are replaced.
RECURSIVE re_sub(_, _, _)
re_sub(pattern, repl, string) ==
  IF Len(string) < Len(pattern) THEN string
  ELSE IF SubSeq(string, 1, Len(pattern)) = pattern
       THEN repl \o re_sub(pattern, repl,
                           SubSeq(string, Len(pattern) + 1, Len(string)))
       ELSE <<Head(string)>> \o re_sub(pattern, repl, Tail(string))

\* A mutant of LongEnough: the length of a secret is not looked at.
LongEnoughAny(secret) == TRUE

\* A mutant of LongEnough: `>` written for `>=`.
LongEnoughStrict(secret) == Len(secret) > min_secret_length

\* The guard `len(secret) >= self._min_secret_length`.
LongEnough(secret) == Len(secret) >= min_secret_length

\* The loop of mask_string over the secrets, visited in `order`.
RECURSIVE MaskLoop(_, _)
MaskLoop(text, order) ==
  IF order = <<>> THEN text
  ELSE MaskLoop(IF LongEnough(Head(order))
                THEN re_sub(Head(order), redaction_text, text)
                ELSE text,
                Tail(order))

\* mask_string(text) when the set is iterated in `order`.
mask_string(text, order) ==
  IF text = <<>> THEN text ELSE MaskLoop(text, order)

\* A mutant of AddSecret: the set is replaced, not extended.
AddSecretReplacing(S, value) == {value}

\* register_secret's effect on the set: None and "" are dropped, any other
\* value is added whatever its length.
AddSecret(S, value) == IF value = <<>> THEN S ELSE S \cup {value}

(***************************************************************************)
(* SpecMask: one masker, values registered one by one, and one mask_string *)
(* call on a text.                                                         *)
(***************************************************************************)
NoReq == [action |-> "none", secrets |-> <<>>]
NoResp == [status |-> "none", registered |-> 0]

ThreadsOff == lock = Free /\ thr = <<>> /\ returned = {}
MaskOff == maskText = <<>> /\ masked = NoResult
StreamOff ==
  /\ child = <<>> /\ outPipe = <<>> /\ errPipe = <<>>
  /\ sockReq = NoReq /\ sockResp = NoResp /\ registered_count = 0
  /\ acked = {} /\ par = <<>> /\ emitted = {}
SeedOff ==
  /\ cfg = <<>> /\ env = <<>> /\ default_secrets = {} /\ substituted = {}
  /\ seedPc = "off" /\ seedLog = {}

\* Exceptions are tuples <<class, origin>>; NoError is Python's None.
NoError == <<"None">>
NoExit == 0 - 1
Nothing == [kind |-> "none", code |-> 0, error |-> NoError]
\* `process` before Popen returns: the name is not bound.
NoProcess == [state |-> "unbound", interrupted |-> "none"]

RunOff ==
  /\ run = [container |-> FALSE, valid |-> FALSE, dry_run |-> FALSE]
  /\ runPc = "off" /\ dispatched = <<>> /\ pending = Nothing
  /\ primary = Nothing /\ rc_result = Nothing /\ exit_status = NoExit
  /\ secret_server = "none"
  /\ metadata = [cli |-> {}, rc |-> {}]
  /\ process = NoProcess

\* The phases a modelled plugin can support, and the names it can have.
ModelPhases == {"pre_container", "cleanup"}
Names == {"a", "b"}
NoCall == [phase |-> "none", ids |-> <<>>, disabled |-> {}]
PluginsOff ==
  /\ objects = <<>> /\ plugins = [n \in Names |-> 0]
  /\ phase_plugins = [ph \in ModelPhases |-> <<>>]
  /\ invoked = NoCall /\ disabledNames = {}
CycleOff ==
  /\ running = FALSE /\ server_socket = "none" /\ socket_file = FALSE
  /\ serve_threads = <<>> /\ lastCall = "off" /\ countAtStop = 0

\* The clients of the socket, and a client that has not connected.
Clients == {"c1", "c2"}
NoMessage == [kind |-> "none", size |-> 0, secrets |-> <<>>]
NotConnected ==
  [state |-> "idle", msg |-> NoMessage, prefix |-> "none", sent |-> 0,
   hung |-> FALSE, response |-> "none", registered |-> 0, complete |-> FALSE,
   queuedFor |-> 0]
InSelect == [pc |-> "select", client |-> "none", got |-> 0, waited |-> 0,
             elapsed |-> 0]
ServerOff ==
  /\ conn = [c \in Clients |-> NotConnected] /\ backlog = <<>>
  /\ handler = [InSelect EXCEPT !.pc = "off"] /\ server_count = 0

\* No file at the path.
Absent == [kind |-> "absent", jobs |-> <<>>]
NoApi == [coordinator_url |-> FALSE, api_token |-> FALSE, job_id |-> FALSE,
          response |-> "none"]
NoFlow == [pc |-> "off", caller |-> "none", existing_triggers |-> <<>>,
           all_triggers |-> <<>>]
NoFlowHist ==
  [initial |-> Absent, before |-> Absent, queued |-> <<>>, atExit |-> Absent,
   exc |-> NoError, propagated |-> NoError, flushes |-> 0]
FlowOff ==
  /\ triggers = <<>> /\ api = NoApi /\ triggers_file = Absent
  /\ flow = NoFlow /\ flowHist = NoFlowHist

NoGlob == [pattern |-> <<>>, target |-> <<>>, called |-> "none",
           result |-> FALSE]
\* `changed_files is None`: no changed-file list is available.
NoChangedFiles == <<<<"None">>>>
NoEvent == [definitions |-> <<>>, event_type |-> "none", branch |-> <<>>,
            changed_files |-> NoChangedFiles]
NoEvalOut == [matched |-> <<>>, triggers |-> <<>>, exit_code |-> NoExit,
              file_written |-> FALSE]
EvalOff ==
  /\ glob = NoGlob /\ ev = NoEvent /\ evalPc = "off" /\ evalOut = NoEvalOut

\* No source preparation is running.
NoGit == [source_ref |-> "", remote |-> [reachable |-> FALSE, pull |-> FALSE],
          target |-> "absent", objects |-> {}, branches |-> {},
          head |-> "none", commands |-> <<>>, raised |-> NoError,
          logged |-> FALSE, returned |-> FALSE]
GitOff ==
  /\ git = NoGit
  /\ gitPc = "off"

\* No source preparation call is running.
NoPrep == [tree |-> "none", source_type |-> "none", source_url |-> "none",
           op_fails |-> FALSE, before |-> "absent", target |-> "absent",
           strategy |-> "none", raised |-> NoError, returned |-> "nothing"]
PrepOff ==
  /\ prep = NoPrep
  /\ prepPc = "off"

\* No validation is running.
NoVal == [caller |-> "none", require_container_runtime |-> FALSE,
          docker |-> FALSE, check_files |-> FALSE,
          config |-> [job_command |-> FALSE, runner_image |-> FALSE,
                      dirs |-> "none"],
          job_path |-> "absent", errors |-> <<>>, raised |-> NoError,
          exit |-> NoExit]
ValOff ==
  /\ val = NoVal
  /\ valPc = "off"

\* No concurrent flush is modelled.
RaceOff ==
  /\ ctxs = <<>>
  /\ shared_file = Absent

InitMask ==
  /\ secrets = {}
  /\ maskText \in Texts
  /\ masked = NoResult
  /\ ThreadsOff
  /\ StreamOff
  /\ SeedOff
  /\ RunOff
  /\ PluginsOff
  /\ CycleOff
  /\ ServerOff
  /\ FlowOff
  /\ EvalOff
  /\ GitOff
  /\ PrepOff
  /\ ValOff
  /\ RaceOff

RegisterSecret ==
  \E v \in Values :
    /\ masked = NoResult
    /\ Cardinality(secrets) < MaxSecrets
    /\ secrets' = AddSecret(secrets, v)
    /\ UNCHANGED <<maskVars, NotMask>>

MaskString ==
  \E order \in Orders(secrets) :
    /\ masked = NoResult
    /\ masked' = mask_string(maskText, order)
    /\ UNCHANGED <<secrets, maskText, NotMask>>

NextMask == RegisterSecret \/ MaskString

SpecMask == InitMask /\ [][NextMask]_vars

\* A value the redaction text cannot spell: it is no part of the redaction
\* text and holds neither the first nor the last character of it.
ClearOfRedaction(v) ==
  /\ ~Contains(redaction_text, v)
  /\ \A i \in 1..Len(v) :
       v[i] # redaction_text[1] /\ v[i] # redaction_text[Len(redaction_text)]

\* C1 (as amended): for every registered value v of length 3 or more that is
\* clear of the redaction text, and every text, in any masker state and for
\* any iteration order, the result of mask_string holds no occurrence of v.
C1_MaskComplete ==
  masked # NoResult =>
    \A v \in secrets :
      (Len(v) >= min_secret_length /\ ClearOfRedaction(v)) => ~Contains(masked, v)

\* C1 as stated: every registered value of length 3 or more is absent from
\* the result of mask_string.
C1_MaskComplete_AsStated ==
  masked # NoResult =>
    \A v \in secrets : Len(v) >= min_secret_length => ~Contains(masked, v)

\* C1 witness: a text holding a registered value of length 3 that is clear of
\* the redaction text, next to a second registered value, has been masked.
C1_Witness ==
  /\ masked # NoResult
  /\ Cardinality(secrets) = 2
  /\ \E v \in secrets :
       /\ Len(v) >= min_secret_length
       /\ ClearOfRedaction(v)
       /\ Contains(maskText, v)
       /\ ~Contains(masked, v)

\* The registered values of fewer than 3 characters.
ShortSecrets == {v \in secrets : Len(v) < 3}

\* C33: values of fewer than 3 characters are ignored by masking: the
\* result of mask_string is a result the masker gives for the same text
\* with those values left out of the set, and the text itself when no
\* other value is registered.
C33_ShortValuesIgnored ==
  masked # NoResult =>
    /\ \E order \in Orders(secrets \ ShortSecrets) :
         masked = mask_string(maskText, order)
    /\ secrets = ShortSecrets => masked = maskText

\* A text holding a registered value of 2 characters and a registered
\* value of 3 has been masked: the short one is still there, the text has
\* changed.
C33_Witness ==
  /\ masked # NoResult
  /\ masked # maskText
  /\ \E v \in ShortSecrets :
       /\ Len(v) = 2
       /\ Contains(maskText, v)
       /\ Contains(masked, v)

\* C39: the result of mask_string is a function of the text and the set of
\* registered values: every order in which the set can be iterated gives
\* the result that was returned.
C39_OrderIndependent ==
  masked # NoResult =>
    \A order \in Orders(secrets) : mask_string(maskText, order) = masked

(***************************************************************************)
(* SpecThreads: threads sharing one masker.  register_secret takes the     *)
(* lock around the add; mask_string holds it from before the first secret  *)
(* is read until the result is complete.                                   *)
(***************************************************************************)
Threads == {"t1", "t2"}

\* What the threads register and mask: a value too short to be masked, a
\* value of length 3 clear of the redaction text, a value inside the
\* redaction text, and texts holding them.
ThreadValues == {<<"R", "D">>, <<"R", "D", "E">>, <<"R", "E", "D">>}
ThreadTexts == {<<"R", "D", "E", "D">>, <<"E", "R", "E", "D">>}

Idle == [pc |-> "idle", arg |-> <<>>, seen |-> {}, out |-> NoResult, calls |-> 0]

InitThreads ==
  /\ secrets = {}
  /\ MaskOff
  /\ StreamOff
  /\ SeedOff
  /\ RunOff
  /\ PluginsOff
  /\ CycleOff
  /\ ServerOff
  /\ FlowOff
  /\ EvalOff
  /\ GitOff
  /\ PrepOff
  /\ ValOff
  /\ RaceOff
  /\ lock = Free
  /\ thr = [t \in Threads |-> Idle]
  /\ returned = {}

\* register_secret(value) is called: None and "" return at once.
CallRegister(t) ==
  \E v \in ThreadValues :
    /\ thr[t].pc = "idle"
    /\ thr[t].calls < MaxCalls
    /\ thr' = [thr EXCEPT ![t] = [Idle EXCEPT !.pc = "reg_acquire", !.arg = v,
                                              !.calls = thr[t].calls + 1]]
    /\ UNCHANGED <<secrets, lock, returned, NotThreads>>

\* `with self._lock:` in register_secret.
RegisterAcquire(t) ==
  /\ thr[t].pc = "reg_acquire"
  /\ lock = Free
  /\ lock' = t
  /\ thr' = [thr EXCEPT ![t].pc = "reg_add"]
  /\ UNCHANGED <<secrets, returned, NotThreads>>

\* `self._secrets.add(str_value)` and the release of the lock.
RegisterAdd(t) ==
  /\ thr[t].pc = "reg_add"
  /\ lock = t
  /\ secrets' = AddSecret(secrets, thr[t].arg)
  /\ lock' = Free
  /\ thr' = [thr EXCEPT ![t].pc = "reg_return"]
  /\ UNCHANGED <<returned, NotThreads>>

\* register_secret returns to its caller.
RegisterReturn(t) ==
  /\ thr[t].pc = "reg_return"
  /\ returned' = returned \cup {thr[t].arg}
  /\ thr' = [thr EXCEPT ![t].pc = "idle"]
  /\ UNCHANGED <<secrets, lock, NotThreads>>

\* mask_string(text) is called; `seen` records the registrations that have
\* returned by now.
CallMask(t) ==
  \E text \in ThreadTexts :
    /\ thr[t].pc = "idle"
    /\ thr[t].calls < MaxCalls
    /\ thr' = [thr EXCEPT ![t] = [Idle EXCEPT !.pc = "mask_acquire", !.arg = text,
                                              !.seen = returned,
                                              !.calls = thr[t].calls + 1]]
    /\ UNCHANGED <<secrets, lock, returned, NotThreads>>

\* `with self._lock:` in mask_string.
MaskAcquire(t) ==
  /\ thr[t].pc = "mask_acquire"
  /\ lock = Free
  /\ lock' = t
  /\ thr' = [thr EXCEPT ![t].pc = "mask_loop"]
  /\ UNCHANGED <<secrets, returned, NotThreads>>

\* The loop over self._secrets and the return, all under the lock.
MaskRun(t) ==
  \E order \in Orders(secrets) :
    /\ thr[t].pc = "mask_loop"
    /\ lock = t
    /\ thr' = [thr EXCEPT ![t].pc = "mask_done",
                          ![t].out = mask_string(thr[t].arg, order)]
    /\ lock' = Free
    /\ UNCHANGED <<secrets, returned, NotThreads>>

\* The caller has used the result and is ready for its next call.
MaskReturn(t) ==
  /\ thr[t].pc = "mask_done"
  /\ thr' = [thr EXCEPT ![t].pc = "idle"]
  /\ UNCHANGED <<secrets, lock, returned, NotThreads>>

NextThreads ==
  \E t \in Threads :
    \/ CallRegister(t)
    \/ RegisterAcquire(t)
    \/ RegisterAdd(t)
    \/ RegisterReturn(t)
    \/ CallMask(t)
    \/ MaskAcquire(t)
    \/ MaskRun(t)
    \/ MaskReturn(t)

SpecThreads == InitThreads /\ [][NextThreads]_vars

\* C2 (as amended): once register_secret(v) has returned in any thread for a
\* value v of length 3 or more that is clear of the redaction text, every
\* mask_string call that starts afterwards, in any thread, returns a text in
\* which v does not occur.
C2_RegisterThenMask ==
  \A t \in Threads :
    thr[t].pc = "mask_done" =>
      \A v \in thr[t].seen :
        (Len(v) >= min_secret_length /\ ClearOfRedaction(v))
          => ~Contains(thr[t].out, v)

\* C2 as stated: whatever the value, once its registration has returned no
\* later mask_string call returns a text in which it occurs.
C2_RegisterThenMask_AsStated ==
  \A t \in Threads :
    thr[t].pc = "mask_done" =>
      \A v \in thr[t].seen : ~Contains(thr[t].out, v)

\* C2 witness: one thread registered a value of length 3 clear of the
\* redaction text, and a mask_string call started after that in the other
\* thread on a text holding the value has returned without it.
C2_Witness ==
  \E t \in Threads :
    /\ thr[t].pc = "mask_done"
    /\ \A u \in Threads \ {t} : thr[u].calls > 0
    /\ thr[t].calls = 1
    /\ \E v \in thr[t].seen :
         /\ Len(v) >= min_secret_length
         /\ ClearOfRedaction(v)
         /\ Contains(thr[t].arg, v)
         /\ ~Contains(thr[t].out, v)
(***************************************************************************)
(* SpecStream: container execution while the child runs (container.py,     *)
(* secrets_server.py).  The child writes lines to its two pipes and        *)
(* registers values over the socket; the server thread handles each        *)
(* request; the parent's loop reads a line from each pipe in turn, masks   *)
(* it and logs it.                                                         *)
(***************************************************************************)
MaxChildOps == 3      \* prints and registrations one child makes
MaxRequestLen == 1    \* most values in one registration request
PipeCapacity == 2     \* lines a pipe holds before the child's write blocks

Whitespace == {" "}

\* str.rstrip(): trailing whitespace removed.
RECURSIVE rstrip(_)
rstrip(s) ==
  IF s # <<>> /\ s[Len(s)] \in Whitespace
  THEN rstrip(SubSeq(s, 1, Len(s) - 1))
  ELSE s

\* What the child registers ("" among them) and the lines it prints.
StreamValues == {<<>>, <<"R", "D">>, <<"R", "D", "E">>, <<"R", "E", "D">>}
StreamLines == {<<"R", "D", "E", "D">>, <<"R", "D", "E", " ">>, <<"R", "E", "D">>}
Requests == UNION {[1..k -> StreamValues] : k \in 1..MaxRequestLen}

\* readline() returns '' at end of file only: a blank line is "\n".
EOF == <<"<eof>">>

Range(f) == {f[i] : i \in DOMAIN f}

InitStream ==
  /\ secrets = {}
  /\ MaskOff
  /\ ThreadsOff
  /\ SeedOff
  /\ RunOff
  /\ PluginsOff
  /\ CycleOff
  /\ ServerOff
  /\ FlowOff
  /\ EvalOff
  /\ GitOff
  /\ PrepOff
  /\ ValOff
  /\ RaceOff
  /\ child = [ops |-> 0, wait |-> FALSE, exited |-> FALSE, sent |-> <<>>,
             writing |-> "none", line |-> <<>>]
  /\ outPipe = <<>>
  /\ errPipe = <<>>
  /\ sockReq = NoReq
  /\ sockResp = NoResp
  /\ registered_count = 0
  /\ acked = {}
  /\ par = [pc |-> "read_out", stdout_line |-> EOF, stderr_line |-> EOF,
            seenOut |-> {}, seenErr |-> {}]
  /\ emitted = {}

ChildCanAct ==
  ~child.exited /\ ~child.wait /\ child.writing = "none" /\ child.ops < MaxChildOps

\* The child prints a line on stdout; the write blocks while the pipe is full.
ChildPrintOut ==
  \E line \in StreamLines :
    /\ ChildCanAct
    /\ Len(outPipe) < PipeCapacity
    /\ outPipe' = Append(outPipe, line)
    /\ child' = [child EXCEPT !.ops = @ + 1]
    /\ UNCHANGED <<secrets, errPipe, sockReq, sockResp, registered_count,
                   acked, par, emitted, NotStream>>

\* The child prints a line on stderr.
ChildPrintErr ==
  \E line \in StreamLines :
    /\ ChildCanAct
    /\ Len(errPipe) < PipeCapacity
    /\ errPipe' = Append(errPipe, line)
    /\ child' = [child EXCEPT !.ops = @ + 1]
    /\ UNCHANGED <<secrets, outPipe, sockReq, sockResp, registered_count,
                   acked, par, emitted, NotStream>>

\* The child starts a write to a pipe that is full: the write blocks until
\* the parent has read from that pipe.
ChildWriteBlocks ==
  \E line \in StreamLines, stream \in {"stdout", "stderr"} :
    /\ ChildCanAct
    /\ Len(IF stream = "stdout" THEN outPipe ELSE errPipe) = PipeCapacity
    /\ child' = [child EXCEPT !.writing = stream, !.line = line]
    /\ UNCHANGED <<secrets, outPipe, errPipe, sockReq, sockResp,
                   registered_count, acked, par, emitted, NotStream>>

\* The blocked write goes through once the pipe has room.
ChildWriteResumes ==
  /\ child.writing # "none"
  /\ Len(IF child.writing = "stdout" THEN outPipe ELSE errPipe) < PipeCapacity
  /\ outPipe' = IF child.writing = "stdout" THEN Append(outPipe, child.line)
                                            ELSE outPipe
  /\ errPipe' = IF child.writing = "stderr" THEN Append(errPipe, child.line)
                                            ELSE errPipe
  /\ child' = [child EXCEPT !.writing = "none", !.line = <<>>, !.ops = @ + 1]
  /\ UNCHANGED <<secrets, sockReq, sockResp, registered_count, acked, par,
                 emitted, NotStream>>

\* register_secret(s)_via_socket: the request is sent and the child waits
\* for the response.
ChildSendRegister ==
  \E req \in Requests :
    /\ ChildCanAct
    /\ sockReq = NoReq
    /\ sockResp = NoResp
    /\ sockReq' = [action |-> "register", secrets |-> req]
    /\ child' = [child EXCEPT !.ops = @ + 1, !.wait = TRUE, !.sent = req]
    /\ UNCHANGED <<secrets, outPipe, errPipe, sockResp, registered_count,
                   acked, par, emitted, NotStream>>

\* An entry of a request's list that is not a string (a number, say).
NonString == <<"<int>">>

\* Every entry is counted, the empty and the non-string ones too.
CountedAll(req) == DOMAIN req

\* The entries of a request that the handler registers and counts:
\* `if secret and isinstance(secret, str)`.
Counted(req) == {i \in DOMAIN req : req[i] # <<>> /\ req[i] # NonString}

\* The masker's set after the handler's loop over the request.
RECURSIVE RegisterAll(_, _)
RegisterAll(S, req) ==
  IF req = <<>> THEN S
  ELSE RegisterAll(IF Head(req) # <<>> /\ Head(req) # NonString
                   THEN AddSecret(S, Head(req)) ELSE S,
                   Tail(req))

\* _handle_client for a register request: every counted secret is registered
\* with the masker, then the response is sent.
HandleClient ==
  /\ sockReq.action = "register"
  /\ secrets' = RegisterAll(secrets, sockReq.secrets)
  /\ registered_count' = registered_count + Cardinality(Counted(sockReq.secrets))
  /\ sockResp' = [status |-> "ok",
                  registered |-> Cardinality(Counted(sockReq.secrets))]
  /\ sockReq' = NoReq
  /\ UNCHANGED <<child, outPipe, errPipe, acked, par, emitted, NotStream>>

\* The child receives the ok response: registration has returned.
ChildReceive ==
  /\ child.wait
  /\ sockResp.status = "ok"
  /\ acked' = acked \cup {child.sent[i] : i \in Counted(child.sent)}
  /\ sockResp' = NoResp
  /\ child' = [child EXCEPT !.wait = FALSE]
  /\ UNCHANGED <<secrets, outPipe, errPipe, sockReq, registered_count, par,
                 emitted, NotStream>>

\* The child exits; its ends of the pipes close.
ChildExit ==
  /\ ~child.exited
  /\ ~child.wait
  /\ child.writing = "none"
  /\ child' = [child EXCEPT !.exited = TRUE]
  /\ UNCHANGED <<secrets, outPipe, errPipe, sockReq, sockResp,
                 registered_count, acked, par, emitted, NotStream>>

\* `stdout_line = process.stdout.readline()`: a line, or '' once the child
\* has closed the pipe and it is drained; the call blocks otherwise.
ReadStdout ==
  /\ par.pc = "read_out"
  /\ outPipe # <<>> \/ child.exited
  /\ par' = [par EXCEPT !.pc = "read_err",
                        !.stdout_line = IF outPipe # <<>> THEN Head(outPipe) ELSE EOF,
                        !.seenOut = acked]
  /\ outPipe' = IF outPipe # <<>> THEN Tail(outPipe) ELSE outPipe
  /\ UNCHANGED <<secrets, child, errPipe, sockReq, sockResp, registered_count,
                 acked, emitted, NotStream>>

\* `stderr_line = process.stderr.readline()`.
ReadStderr ==
  /\ par.pc = "read_err"
  /\ errPipe # <<>> \/ child.exited
  /\ par' = [par EXCEPT !.pc = "emit_out",
                        !.stderr_line = IF errPipe # <<>> THEN Head(errPipe) ELSE EOF,
                        !.seenErr = acked]
  /\ errPipe' = IF errPipe # <<>> THEN Tail(errPipe) ELSE errPipe
  /\ UNCHANGED <<secrets, child, outPipe, sockReq, sockResp, registered_count,
                 acked, emitted, NotStream>>

\* `output_masker.mask_string(stdout_line.rstrip())`.
MaskStdout(line, order) == mask_string(rstrip(line), order)

\* A mutant of MaskStderr: the stderr line is logged without masking.
MaskStderrRaw(line, order) == rstrip(line)

\* `output_masker.mask_string(stderr_line.rstrip())`.
MaskStderr(line, order) == mask_string(rstrip(line), order)

\* `if stdout_line:` mask it and log it.
EmitStdout ==
  /\ par.pc = "emit_out"
  /\ par' = [par EXCEPT !.pc = "emit_err"]
  /\ IF par.stdout_line # EOF
     THEN \E order \in Orders(secrets) :
            emitted' = emitted \cup
              {[stream |-> "stdout", raw |-> par.stdout_line,
                text |-> MaskStdout(par.stdout_line, order),
                seen |-> par.seenOut]}
     ELSE emitted' = emitted
  /\ UNCHANGED <<secrets, child, outPipe, errPipe, sockReq, sockResp,
                 registered_count, acked, NotStream>>

\* `if stderr_line:` mask it and log it.
EmitStderr ==
  /\ par.pc = "emit_err"
  /\ par' = [par EXCEPT !.pc = "check"]
  /\ IF par.stderr_line # EOF
     THEN \E order \in Orders(secrets) :
            emitted' = emitted \cup
              {[stream |-> "stderr", raw |-> par.stderr_line,
                text |-> MaskStderr(par.stderr_line, order),
                seen |-> par.seenErr]}
     ELSE emitted' = emitted
  /\ UNCHANGED <<secrets, child, outPipe, errPipe, sockReq, sockResp,
                 registered_count, acked, NotStream>>

\* `if process.poll() is not None and not stdout_line and not stderr_line: break`
CheckFinished ==
  /\ par.pc = "check"
  /\ par' = [par EXCEPT !.pc =
               IF child.exited /\ par.stdout_line = EOF /\ par.stderr_line = EOF
               THEN "communicate" ELSE "read_out"]
  /\ UNCHANGED <<secrets, child, outPipe, errPipe, sockReq, sockResp,
                 registered_count, acked, emitted, NotStream>>

\* `process.communicate()` and the masking of what remained in the pipes.
Communicate ==
  /\ par.pc = "communicate"
  /\ child.exited
  /\ \E order \in Orders(secrets) :
       emitted' = emitted
         \cup {[stream |-> "stdout", raw |-> outPipe[i],
                text |-> mask_string(outPipe[i], order), seen |-> acked] :
               i \in DOMAIN outPipe}
         \cup {[stream |-> "stderr", raw |-> errPipe[i],
                text |-> mask_string(errPipe[i], order), seen |-> acked] :
               i \in DOMAIN errPipe}
  /\ outPipe' = <<>>
  /\ errPipe' = <<>>
  /\ par' = [par EXCEPT !.pc = "done"]
  /\ UNCHANGED <<secrets, child, sockReq, sockResp, registered_count, acked,
                 NotStream>>

NextStream ==
  \/ ChildPrintOut
  \/ ChildPrintErr
  \/ ChildWriteBlocks
  \/ ChildWriteResumes
  \/ ChildSendRegister
  \/ HandleClient
  \/ ChildReceive
  \/ ChildExit
  \/ ReadStdout
  \/ ReadStderr
  \/ EmitStdout
  \/ EmitStderr
  \/ CheckFinished
  \/ Communicate

SpecStream == InitStream /\ [][NextStream]_vars

\* C3 (as amended): once a register request has received its ok response,
\* no line the parent reads from the child's stdout or stderr afterwards is
\* logged with a registered value in it, for every registered value of
\* length 3 or more that is clear of the redaction text.
C3_NoLeakAfterAck ==
  \A e \in emitted :
    \A v \in e.seen :
      (Len(v) >= min_secret_length /\ ClearOfRedaction(v)) => ~Contains(e.text, v)

\* C3 as stated: no line read after the ok response is logged with the
\* registered value in it, whatever the value.
C3_NoLeakAfterAck_AsStated ==
  \A e \in emitted : \A v \in e.seen : ~Contains(e.text, v)

\* C3 witness: a stderr line holding a value of length 3 was read after the
\* value's ok response and logged without it.
C3_Witness ==
  \E e \in emitted :
    /\ e.stream = "stderr"
    /\ \E v \in e.seen :
         /\ Len(v) >= min_secret_length
         /\ ClearOfRedaction(v)
         /\ Contains(e.raw, v)
         /\ ~Contains(e.text, v)
(***************************************************************************)
(* SpecSeed: from the run's configuration to the masker that filters the   *)
(* job's output (config.py get_secrets_to_mask, cli.py resolve_job_secrets *)
(* and _run_local, container.py run_container).  A string is a sequence of *)
(* characters in which "REACTORCIDE", "./job/", a config value and a       *)
(* ${secret:PATH:KEY} reference each count as one element.                 *)
(***************************************************************************)
NoneStr == <<"<None>">>

\* str.startswith(prefix).
StartsWith(s, prefix) ==
  Len(s) >= Len(prefix) /\ SubSeq(s, 1, Len(prefix)) = prefix

RC_PREFIX == <<"REACTORCIDE", "_">>
JOB_PATH_PREFIX == <<"./job/">>

\* str.lstrip() and str.strip().
RECURSIVE lstrip(_)
lstrip(s) == IF s # <<>> /\ s[1] \in Whitespace THEN lstrip(Tail(s)) ELSE s
strip(s) == lstrip(rstrip(s))

\* str.split(sep) for a one-character separator.
RECURSIVE split(_, _)
split(s, sep) ==
  IF \E i \in 1..Len(s) : s[i] = sep
  THEN LET i == CHOOSE i \in 1..Len(s) :
                  s[i] = sep /\ \A j \in 1..(i - 1) : s[j] # sep
       IN <<SubSeq(s, 1, i - 1)>> \o split(SubSeq(s, i + 1, Len(s)), sep)
  ELSE <<s>>

\* The one reference the job env can hold, and what the store returns for it.
SecretRef == "${secret:p:k}"
Missing == <<"<missing>">>
StoreChoices == {Missing, <<"D", "D", "R">>}

\* has_secret_refs(text).
has_secret_refs(text) == \E i \in 1..Len(text) : text[i] = SecretRef

\* resolve_secrets_in_string(text, get_secret) when the secret exists:
\* every reference is replaced by the stored value.
RECURSIVE resolve_secrets_in_string(_, _)
resolve_secrets_in_string(text, value) ==
  IF text = <<>> THEN <<>>
  ELSE (IF Head(text) = SecretRef THEN value ELSE <<Head(text)>>)
       \o resolve_secrets_in_string(Tail(text), value)

\* The configurations a run is given.  job_env is the parsed env block: keys
\* with and without the REACTORCIDE_ prefix, values that are empty, plain,
\* or hold a reference.
JobKeys == {<<"V">>, <<"REACTORCIDE", "_", "T">>}
JobValues == {<<>>, <<"R", "D", "E">>, <<SecretRef>>, <<"D", SecretRef>>}
JobEnvs == UNION {[K -> JobValues] : K \in SUBSET JobKeys}
SecretsLists ==
  {NoneStr, <<>>, <<"R", "D", "E">>, <<" ", "R", "D", "E", ",", ",", "E", "E", "E", " ">>,
   <<"./job/", "f">>}
FileLines == << <<"E", "D", "E", " ">>, <<>>, <<"#", "R", "D", "E">> >>

Configs ==
  [mode : {"local", "container"},
   secrets_list : SecretsLists,
   job_env : JobEnvs,
   file_exists : BOOLEAN,
   store : StoreChoices]

\* get_all_environment_vars(config): the REACTORCIDE_* configuration
\* variables, updated with the parsed job env.
ConfigVars ==
  (<<"REACTORCIDE", "_", "CODE_DIR">> :> <<"/job/src">>)
  @@ (<<"REACTORCIDE", "_", "JOB_DIR">> :> <<"/job/src">>)
  @@ (<<"REACTORCIDE", "_", "JOB_COMMAND">> :> <<"sh -c ...">>)
  @@ (<<"REACTORCIDE", "_", "RUNNER_IMAGE">> :> <<"image">>)
get_all_environment_vars(c) == c.job_env @@ ConfigVars

\* A mutant of ExplicitList: `if config.secrets_list:` for `is not None`.
ExplicitListTruthy(c) == c.secrets_list # NoneStr /\ c.secrets_list # <<>>

\* `if config.secrets_list is not None:`
ExplicitList(c) == c.secrets_list # NoneStr

\* get_secrets_to_mask(config, env_vars): the values of the list returned.
get_secrets_to_mask(c, env_vars) ==
  IF ExplicitList(c)
  THEN IF /\ c.secrets_list # <<>>
          /\ StartsWith(c.secrets_list, JOB_PATH_PREFIX)
          /\ c.file_exists
       THEN {strip(FileLines[i]) :
               i \in {j \in DOMAIN FileLines :
                        /\ strip(FileLines[j]) # <<>>
                        /\ ~StartsWith(strip(FileLines[j]), <<"#">>)}}
       ELSE {strip(x) : x \in {y \in Range(split(c.secrets_list, ",")) :
                                 strip(y) # <<>>}}
  ELSE {env_vars[k] : k \in {j \in DOMAIN env_vars :
                               ~StartsWith(j, RC_PREFIX) /\ env_vars[j] # <<>>}}

\* register_secrets(values) on a masker set.
RegisterValues(S, values) == UNION ({S} \cup {AddSecret(S, v) : v \in values})

InitSeed ==
  /\ secrets = {}
  /\ MaskOff
  /\ ThreadsOff
  /\ StreamOff
  /\ RunOff
  /\ PluginsOff
  /\ CycleOff
  /\ ServerOff
  /\ FlowOff
  /\ EvalOff
  /\ GitOff
  /\ PrepOff
  /\ ValOff
  /\ RaceOff
  /\ cfg \in Configs
  /\ env = <<>>
  /\ default_secrets = {}
  /\ substituted = {}
  /\ seedPc = "start"
  /\ seedLog = {}

\* `get_environment_vars(config)` in _run_local and in run_container; only
\* _run_local goes on to resolve references.
GetEnvironmentVars ==
  /\ seedPc = "start"
  /\ env' = get_all_environment_vars(cfg)
  /\ seedPc' = IF cfg.mode = "local" THEN "resolve" ELSE "seed"
  /\ UNCHANGED <<secrets, cfg, default_secrets, substituted, seedLog, NotSeed>>

\* resolve_job_secrets(env_vars): with no reference the env is returned as
\* it is; a missing secret raises; otherwise every changed, non-empty value
\* is registered through secrets.register_secret, the default masker.
ResolveJobSecrets ==
  /\ seedPc = "resolve"
  /\ IF ~\E k \in DOMAIN env : has_secret_refs(env[k])
     THEN /\ seedPc' = "seed"
          /\ UNCHANGED <<env, default_secrets, substituted>>
     ELSE IF cfg.store = Missing
     THEN /\ seedPc' = "failed"
          /\ UNCHANGED <<env, default_secrets, substituted>>
     ELSE LET resolved == [k \in DOMAIN env |->
                             resolve_secrets_in_string(env[k], cfg.store)]
          IN /\ env' = resolved
             /\ default_secrets' =
                  RegisterValues(default_secrets,
                                 {resolved[k] : k \in {j \in DOMAIN env :
                                    env[j] # resolved[j] /\ resolved[j] # <<>>}})
             /\ substituted' = substituted \cup {cfg.store}
             /\ seedPc' = "seed"
  /\ UNCHANGED <<secrets, cfg, seedLog, NotSeed>>

\* `masker = SecretMasker()` and the registration of
\* get_secrets_to_mask(config, env_vars) with it.
SeedMasker ==
  /\ seedPc = "seed"
  /\ secrets' = RegisterValues({}, get_secrets_to_mask(cfg, env))
  /\ seedPc' = "running"
  /\ UNCHANGED <<cfg, env, default_secrets, substituted, seedLog, NotSeed>>

\* The job prints the value of one of its environment variables; the parent
\* masks the line with the run's masker and logs it.
JobPrintsEnv ==
  \E k \in DOMAIN env, order \in Orders(secrets) :
    /\ seedPc = "running"
    /\ seedLog' = seedLog \cup
         {[raw |-> env[k], text |-> mask_string(rstrip(env[k]), order)]}
    /\ UNCHANGED <<secrets, cfg, env, default_secrets, substituted, seedPc,
                   NotSeed>>

NextSeed ==
  \/ GetEnvironmentVars
  \/ ResolveJobSecrets
  \/ SeedMasker
  \/ JobPrintsEnv

SpecSeed == InitSeed /\ [][NextSeed]_vars

\* The listed values of an inline list: for every stretch between two
\* separators (or an end of the string), the stretch without the blanks
\* around it, when something is left.
Trimmed(s) ==
  IF \A i \in 1..Len(s) : s[i] \in Whitespace THEN <<>>
  ELSE LET a == CHOOSE i \in 1..Len(s) :
                  s[i] \notin Whitespace /\ \A j \in 1..(i - 1) : s[j] \in Whitespace
           b == CHOOSE i \in 1..Len(s) :
                  s[i] \notin Whitespace /\ \A j \in (i + 1)..Len(s) : s[j] \in Whitespace
       IN SubSeq(s, a, b)
ListedInline(s) ==
  LET cuts == {0, Len(s) + 1} \cup {i \in 1..Len(s) : s[i] = ","}
  IN {Trimmed(SubSeq(s, a + 1, b - 1)) :
        <<a, b>> \in {p \in cuts \X cuts :
                        p[1] < p[2] /\ \A i \in (p[1] + 1)..(p[2] - 1) : i \notin cuts}}
     \ {<<>>}
ListedInFile ==
  {Trimmed(FileLines[i]) : i \in DOMAIN FileLines}
    \ ({<<>>} \cup {l \in {Trimmed(FileLines[i]) : i \in DOMAIN FileLines} :
                      l # <<>> /\ l[1] = "#"})

\* C4: the set seeded into the run's masker is, when secrets_list is unset,
\* the (non-empty) values of the environment entries whose key does not
\* start with REACTORCIDE_, and, when secrets_list is provided (the empty
\* string included), exactly the listed values and no environment value.
C4_SeedTwoModes ==
  seedPc = "running" =>
    IF cfg.secrets_list = NoneStr
    THEN secrets = {env[k] : k \in {j \in DOMAIN env :
                                      ~(/\ Len(j) >= 2
                                        /\ j[1] = "REACTORCIDE"
                                        /\ j[2] = "_")}}
                   \ {<<>>}
    ELSE secrets = IF StartsWith(cfg.secrets_list, JOB_PATH_PREFIX) /\ cfg.file_exists
                   THEN ListedInFile
                   ELSE ListedInline(cfg.secrets_list)

\* C4 witness: secrets_list was given as the empty string, the environment
\* holds a non-empty value under a key without the prefix, and the run's
\* masker was seeded with nothing.
C4_Witness ==
  /\ seedPc = "running"
  /\ cfg.secrets_list = <<>>
  /\ \E k \in DOMAIN env : ~StartsWith(k, RC_PREFIX) /\ env[k] # <<>>
  /\ secrets = {}

PluginPhase ==
  <<"pre_validation", "post_validation", "pre_source_prep", "post_source_prep",
    "pre_container", "post_container", "on_error", "cleanup">>
ON_ERROR == "on_error"
CLEANUP == "cleanup"

PluginError(phase) == <<"PluginError", phase>>
FileNotFoundError == <<"FileNotFoundError", "docker">>
SourcePrepError == <<"Exception", "prepare">>
ServerStartError == <<"OSError", "secret_server.start">>
PopenError == <<"OSError", "Popen">>
SubprocessError == <<"SubprocessError", "Popen">>

\* What the plugins of one dispatch do: none raises, one raises, or one
\* raises and an on_error plugin raises too.
PluginOutcomes == {"ok", "raise", "raise2"}

\* One entry of the dispatch history: the phase, context.error, the exception
\* a plugin of this dispatch raised, the exception that left execute_phase,
\* and whether execute_phase itself made the dispatch.
Dispatch(phase, error, failed, raised, nested) ==
  [phase |-> phase, error |-> error, failed |-> failed, raised |-> raised,
   nested |-> nested]

\* `self.execute_phase(ON_ERROR, error_context)` followed by `raise`: when
\* the nested dispatch raises, its exception leaves instead of e.
Rethrown(e, nestedRaised) == IF nestedRaised # NoError THEN nestedRaised ELSE e

\* PluginManager.execute_phase(phase, context): the dispatches made and the
\* exception raised to the caller (NoError when it returns).
ExecutePhaseAt(phase, error, outcome, nested) ==
  IF outcome = "ok"
  THEN [log |-> <<Dispatch(phase, error, NoError, NoError, nested)>>,
        raised |-> NoError]
  ELSE LET e == PluginError(phase)
       IN IF phase = ON_ERROR
          THEN [log |-> <<Dispatch(phase, error, e, e, nested)>>, raised |-> e]
          ELSE LET n == IF outcome = "raise2" THEN PluginError(ON_ERROR)
                                               ELSE NoError
                   out == Rethrown(e, n)
               IN [log |-> <<Dispatch(phase, error, e, out, nested),
                             Dispatch(ON_ERROR, e, n, n, TRUE)>>,
                   raised |-> out]
execute_phase(phase, error, outcome) ==
  ExecutePhaseAt(phase, error, outcome, FALSE)

\* The outcomes that differ for a phase.
OutcomesOf(phase) == IF phase = ON_ERROR THEN {"ok", "raise"} ELSE PluginOutcomes

\* What a dispatch leaves in context.metadata: the plugins of a phase that
\* ran without raising record the phase under a key of their own.
WriteOf(d) == IF d.failed = NoError THEN {d.phase} ELSE {}

\* The dispatches of one execute_phase call on the context object ctx, each
\* with the metadata its plugins find; the error context of a nested
\* on_error dispatch is built with `metadata=context.metadata`.
Stamp(ctx, log, md) ==
  [k \in DOMAIN log |->
     [phase |-> log[k].phase, error |-> log[k].error, failed |-> log[k].failed,
      raised |-> log[k].raised, nested |-> log[k].nested, ctx |-> ctx,
      visible |-> md[ctx] \cup UNION {WriteOf(log[m]) : m \in 1..(k - 1)}]]
Written(ctx, log, md) ==
  [md EXCEPT ![ctx] = @ \cup UNION {WriteOf(log[m]) : m \in DOMAIN log}]

Return(code) == [kind |-> "return", code |-> code, error |-> NoError]
Raise(e) == [kind |-> "raise", code |-> 0, error |-> e]

\* A mutant of AfterCleanup: a cleanup failure leaves the finally block.
AfterCleanupShadowing(p, raised) == IF raised # NoError THEN Raise(raised) ELSE p

\* The finally block's `try: execute_phase(CLEANUP) except Exception: pass`:
\* what was leaving the inner try still leaves it.
AfterCleanup(p, raised) == p

ChildExitCodes == {0, 1}

InitRun ==
  /\ secrets = {}
  /\ MaskOff
  /\ ThreadsOff
  /\ StreamOff
  /\ SeedOff
  /\ PluginsOff
  /\ CycleOff
  /\ ServerOff
  /\ FlowOff
  /\ EvalOff
  /\ GitOff
  /\ PrepOff
  /\ ValOff
  /\ RaceOff
  /\ run \in [container : BOOLEAN, valid : BOOLEAN, dry_run : BOOLEAN]
  /\ runPc = "pre_validation"
  /\ dispatched = <<>>
  /\ pending = Nothing
  /\ primary = Nothing
  /\ rc_result = Nothing
  /\ exit_status = NoExit
  /\ secret_server = "none"
  /\ metadata = [cli |-> {}, rc |-> {}]
  /\ process = NoProcess

\* `raise typer.Exit(code)`, directly or from an except clause of `run`.
Exit(code) == runPc' = "done" /\ exit_status' = code

\* A dispatch in `run`: an exception reaches `except Exception` -> Exit(1).
CliPhase(at, phase, next) ==
  \E o \in OutcomesOf(phase) :
    LET r == execute_phase(phase, NoError, o)
    IN /\ runPc = at
       /\ dispatched' = dispatched \o Stamp("cli", r.log, metadata)
       /\ metadata' = Written("cli", r.log, metadata)
       /\ IF r.raised # NoError THEN Exit(1)
          ELSE runPc' = next /\ UNCHANGED exit_status
       /\ UNCHANGED <<run, pending, primary, rc_result, secret_server, secrets, process,
                      NotRun>>

PreValidation == CliPhase("pre_validation", "pre_validation", "validate")

\* validate_config: an invalid configuration ends the run with Exit(1).
Validate ==
  /\ runPc = "validate"
  /\ IF run.valid THEN runPc' = "post_validation" /\ UNCHANGED exit_status
     ELSE Exit(1)
  /\ UNCHANGED <<run, dispatched, metadata,
                 pending, primary, rc_result, secret_server,
                 secrets, process, NotRun>>

PostValidation == CliPhase("post_validation", "post_validation", "dry_run")

DryRun ==
  /\ runPc = "dry_run"
  /\ IF run.dry_run THEN Exit(0)
     ELSE runPc' = "cli_pre_source_prep" /\ UNCHANGED exit_status
  /\ UNCHANGED <<run, dispatched, metadata,
                 pending, primary, rc_result, secret_server,
                 secrets, process, NotRun>>

CliPreSourcePrep ==
  CliPhase("cli_pre_source_prep", "pre_source_prep", "cli_prepare_source")

\* prepare_ci_source / prepare_source: they return or raise.
CliPrepareSource ==
  \E ok \in BOOLEAN :
    /\ runPc = "cli_prepare_source"
    /\ IF ok THEN runPc' = "cli_post_source_prep" /\ UNCHANGED exit_status
       ELSE Exit(1)
    /\ UNCHANGED <<run, dispatched, metadata,
                   pending, primary, rc_result, secret_server,
                   secrets, process, NotRun>>

CliPostSourcePrep ==
  CliPhase("cli_post_source_prep", "post_source_prep", "execute")

\* `_run_local(config, command_args)`: the child's exit code, or 1 when
\* starting it failed; no phase is dispatched.
RunLocal ==
  \E code \in ChildExitCodes :
    /\ runPc = "execute"
    /\ ~run.container
    /\ Exit(code)
    /\ UNCHANGED <<run, dispatched, metadata,
                   pending, primary, rc_result, secret_server,
                   secrets, process, NotRun>>

\* `run_container(config=config, ...)` is entered.
EnterRunContainer ==
  /\ runPc = "execute"
  /\ run.container
  /\ runPc' = "rc_pre_source_prep"
  /\ UNCHANGED <<run, dispatched, metadata,
                 pending, primary, rc_result, exit_status,
                 secret_server, secrets, process, NotRun>>

\* A dispatch in run_container's outer try: an exception goes to the outer
\* `except Exception`.
OuterPhase(at, phase, next) ==
  \E o \in OutcomesOf(phase) :
    LET r == execute_phase(phase, NoError, o)
    IN /\ runPc = at
       /\ dispatched' = dispatched \o Stamp("rc", r.log, metadata)
       /\ metadata' = Written("rc", r.log, metadata)
       /\ IF r.raised # NoError
          THEN runPc' = "rc_outer_except" /\ pending' = Raise(r.raised)
          ELSE runPc' = next /\ UNCHANGED pending
       /\ UNCHANGED <<run, primary, rc_result, exit_status, secret_server,
                      secrets, process, NotRun>>

RcPreSourcePrep ==
  OuterPhase("rc_pre_source_prep", "pre_source_prep", "rc_prepare")

\* shutil.which("docker") and prepare_job_directory(config).
RcPrepare ==
  \E e \in {NoError, FileNotFoundError, SourcePrepError} :
    /\ runPc = "rc_prepare"
    /\ IF e # NoError
       THEN runPc' = "rc_outer_except" /\ pending' = Raise(e)
       ELSE runPc' = "rc_post_source_prep" /\ UNCHANGED pending
    /\ UNCHANGED <<run, dispatched, metadata, primary, rc_result, exit_status,
                   secret_server, secrets, process, NotRun>>

RcPostSourcePrep ==
  OuterPhase("rc_post_source_prep", "post_source_prep", "rc_start_server")

\* The masker is seeded and `secret_server.start()` runs.
RcStartServer ==
  \E e \in {NoError, ServerStartError} :
    /\ runPc = "rc_start_server"
    /\ IF e # NoError
       THEN /\ runPc' = "rc_outer_except" /\ pending' = Raise(e)
            /\ UNCHANGED secret_server
       ELSE /\ runPc' = "rc_pre_container" /\ UNCHANGED pending
            /\ secret_server' = "started"
    /\ UNCHANGED <<run, dispatched, metadata,
                   primary, rc_result, exit_status, secrets, process,
                   NotRun>>

RcPreContainer == OuterPhase("rc_pre_container", "pre_container", "rc_child")

\* `process = subprocess.Popen(cmd, ...)`: it returns and the child runs, or
\* it raises.
RcChild ==
  /\ runPc = "rc_child"
  /\ \/ /\ process' = [process EXCEPT !.state = "running"]
        /\ runPc' = "rc_stream"
        /\ UNCHANGED pending
     \/ /\ pending' = Raise(SubprocessError)
        /\ runPc' = "rc_except_subprocess"
        /\ UNCHANGED process
     \/ /\ pending' = Raise(PopenError)
        /\ runPc' = "rc_except_exception"
        /\ UNCHANGED process
  /\ UNCHANGED <<run, dispatched, metadata, primary, rc_result, exit_status,
                 secret_server, secrets, NotRun>>

\* The streaming loop and `process.communicate()`: the child exits, then
\* `secret_server.stop()`.
RcStream ==
  \E code \in ChildExitCodes :
    /\ runPc = "rc_stream"
    /\ process' = [process EXCEPT !.state = "exited"]
    /\ pending' = Return(code)
    /\ secret_server' = "stopped"
    /\ runPc' = "rc_post_container"
    /\ UNCHANGED <<run, dispatched, metadata, primary, rc_result, exit_status,
                   secrets, NotRun>>

\* The statements of the inner try's body, where `except KeyboardInterrupt`
\* catches an interrupt.
InnerTry == {"rc_child", "rc_stream", "rc_post_container"}

\* A mutant of terminate: the handler leaves the child alone.
terminateSkipped(state) == state

\* `if 'process' in locals(): process.terminate()`: a running child is
\* signalled; an unbound name or a child that has exited is left as it is.
terminate(state) == IF state = "running" THEN "terminated" ELSE state

\* `except KeyboardInterrupt`: terminate the child, stop the server,
\* `return 130`.
RcExceptKeyboardInterrupt ==
  \E at \in InnerTry :
    /\ runPc = at
    /\ process' = [state |-> terminate(process.state), interrupted |-> at]
    /\ secret_server' = "stopped"
    /\ pending' = Return(130)
    /\ runPc' = "rc_finally"
    /\ UNCHANGED <<run, dispatched, metadata, primary, rc_result, exit_status,
                   secrets, NotRun>>

\* POST_CONTAINER is dispatched inside the inner try, then `return
\* process.returncode`.
RcPostContainer ==
  \E o \in OutcomesOf("post_container") :
    LET r == execute_phase("post_container", NoError, o)
    IN /\ runPc = "rc_post_container"
       /\ dispatched' = dispatched \o Stamp("rc", r.log, metadata)
       /\ metadata' = Written("rc", r.log, metadata)
       /\ IF r.raised # NoError
          THEN runPc' = "rc_except_exception" /\ pending' = Raise(r.raised)
          ELSE runPc' = "rc_finally" /\ UNCHANGED pending
       /\ UNCHANGED <<run, primary, rc_result, exit_status, secret_server,
                      secrets, process, NotRun>>

\* `except subprocess.SubprocessError`: on_error is dispatched with the
\* error, a plugin failure is swallowed, the server is stopped, return 1.
RcExceptSubprocess ==
  \E o \in OutcomesOf(ON_ERROR) :
    /\ runPc = "rc_except_subprocess"
    /\ dispatched' = dispatched
         \o Stamp("rc", execute_phase(ON_ERROR, pending.error, o).log, metadata)
    /\ metadata' =
         Written("rc", execute_phase(ON_ERROR, pending.error, o).log, metadata)
    /\ secret_server' = "stopped"
    /\ pending' = Return(1)
    /\ runPc' = "rc_finally"
    /\ UNCHANGED <<run, primary, rc_result, exit_status, secrets, process, NotRun>>

\* `except Exception` of the inner try: on_error is dispatched with the
\* error, a plugin failure is swallowed, and the error is raised again.
RcExceptException ==
  \E o \in OutcomesOf(ON_ERROR) :
    /\ runPc = "rc_except_exception"
    /\ dispatched' = dispatched
         \o Stamp("rc", execute_phase(ON_ERROR, pending.error, o).log, metadata)
    /\ metadata' =
         Written("rc", execute_phase(ON_ERROR, pending.error, o).log, metadata)
    /\ runPc' = "rc_finally"
    /\ UNCHANGED <<run, pending, primary, rc_result, exit_status, secret_server,
                   secrets, process, NotRun>>

\* `finally`: CLEANUP is dispatched, the server is stopped; a return leaves
\* run_container, a raise goes on to the outer `except Exception`.
RcFinally ==
  \E o \in OutcomesOf(CLEANUP) :
    LET r == execute_phase(CLEANUP, pending.error, o)
        p == AfterCleanup(pending, r.raised)
    IN /\ runPc = "rc_finally"
       /\ dispatched' = dispatched \o Stamp("rc", r.log, metadata)
       /\ metadata' = Written("rc", r.log, metadata)
       /\ secret_server' = "stopped"
       /\ primary' = pending
       /\ pending' = p
       /\ IF p.kind = "return"
          THEN /\ rc_result' = p
               /\ Exit(p.code)
          ELSE /\ runPc' = "rc_outer_except"
               /\ UNCHANGED <<rc_result, exit_status>>
       /\ UNCHANGED <<run, secrets, process, NotRun>>

\* The outer `except Exception`: on_error is dispatched with the error, a
\* plugin failure is swallowed, the error is raised to `run`, whose
\* `except Exception` exits with 1.
RcOuterExcept ==
  \E o \in OutcomesOf(ON_ERROR) :
    /\ runPc = "rc_outer_except"
    /\ dispatched' = dispatched
         \o Stamp("rc", execute_phase(ON_ERROR, pending.error, o).log, metadata)
    /\ metadata' =
         Written("rc", execute_phase(ON_ERROR, pending.error, o).log, metadata)
    /\ rc_result' = pending
    /\ Exit(1)
    /\ UNCHANGED <<run, pending, primary, secret_server, secrets, process, NotRun>>

NextRun ==
  \/ PreValidation
  \/ Validate
  \/ PostValidation
  \/ DryRun
  \/ CliPreSourcePrep
  \/ CliPrepareSource
  \/ CliPostSourcePrep
  \/ RunLocal
  \/ EnterRunContainer
  \/ RcPreSourcePrep
  \/ RcPrepare
  \/ RcPostSourcePrep
  \/ RcStartServer
  \/ RcPreContainer
  \/ RcChild
  \/ RcStream
  \/ RcExceptKeyboardInterrupt
  \/ RcPostContainer
  \/ RcExceptSubprocess
  \/ RcExceptException
  \/ RcFinally
  \/ RcOuterExcept

SpecRun == InitRun /\ [][NextRun]_vars
\* The place of a phase in the order pre_validation, ..., on_error, cleanup.
Rank(phase) == CHOOSE i \in DOMAIN PluginPhase : PluginPhase[i] = phase
Pipeline == {PluginPhase[i] : i \in 1..6}

C7_CleanupAlways ==
  (runPc = "done" /\ dispatched # <<>>) =>
    \E i \in DOMAIN dispatched : dispatched[i].phase = CLEANUP

\* C8 as stated: when a plugin has raised in a pipeline phase
\* (pre_validation through post_container), the ended run has dispatched
\* on_error after it and cleanup after that on_error.
C8_OnErrorThenCleanup ==
  runPc = "done" =>
    \A i \in DOMAIN dispatched :
      (dispatched[i].failed # NoError /\ dispatched[i].phase \in Pipeline) =>
        \E j, k \in DOMAIN dispatched :
          /\ i < j /\ j < k
          /\ dispatched[j].phase = ON_ERROR
          /\ dispatched[k].phase = CLEANUP

\* A cleanup plugin raised in this run.
CleanupFailed ==
  \E i \in DOMAIN dispatched :
    dispatched[i].phase = CLEANUP /\ dispatched[i].failed # NoError

\* C9: when a cleanup plugin has raised, run_container's caller still gets
\* what was leaving the inner try before cleanup ran (the primary error, or
\* the child's exit code), and `run` exits with that code, or with 1 for
\* an error.
C9_CleanupNeverShadows ==
  (runPc = "done" /\ CleanupFailed) =>
    /\ rc_result = primary
    /\ primary.kind \in {"return", "raise"}
    /\ exit_status = IF primary.kind = "return" THEN primary.code ELSE 1

\* C9 witness: a run has ended in which a cleanup plugin raised while an
\* error was on its way out of run_container.
C9_Witness ==
  /\ runPc = "done"
  /\ CleanupFailed
  /\ primary.kind = "raise"
  /\ rc_result.error = PopenError

\* C10 as stated: a plugin raising in a phase other than on_error is
\* followed by an on_error dispatch made by execute_phase with the raised
\* exception as context.error, and that exception is what execute_phase
\* raises; a plugin raising in on_error is followed by no such dispatch.
C10_DispatchThenRethrow ==
  \A i \in DOMAIN dispatched :
    dispatched[i].failed # NoError =>
      IF dispatched[i].phase # ON_ERROR
      THEN /\ i + 1 \in DOMAIN dispatched
           /\ dispatched[i + 1].phase = ON_ERROR
           /\ dispatched[i + 1].nested
           /\ dispatched[i + 1].error = dispatched[i].failed
           /\ dispatched[i].raised = dispatched[i].failed
      ELSE /\ dispatched[i].raised = dispatched[i].failed
           /\ ~(i + 1 \in DOMAIN dispatched /\ dispatched[i + 1].nested)
C35_OnErrorOncePerFailure ==
  \A i, j \in DOMAIN dispatched :
    (i < j /\ dispatched[j].phase = ON_ERROR) =>
      /\ dispatched[i].phase # CLEANUP
      /\ dispatched[i].phase = ON_ERROR =>
           dispatched[i].error # dispatched[j].error

C37_OwnExceptionPropagates ==
  \A i \in DOMAIN dispatched :
    (dispatched[i].failed # NoError /\ dispatched[i].phase # ON_ERROR) =>
      dispatched[i].raised = dispatched[i].failed
(***************************************************************************)
(* SpecPlugins: the PluginManager's registry (plugins.py register_plugin,  *)
(* unregister_plugin, enable_plugin, disable_plugin, execute_phase).  A    *)
(* Plugin object is known by its index in `objects`, which is also the     *)
(* order in which the objects were registered.                             *)
(***************************************************************************)
MaxObjects == 3
Priorities == {10, 100}
SupportedPhases == {{"pre_container", "cleanup"}, {"cleanup"}}

\* Plugin.__init__(name, priority): a new object is enabled.
NewPlugin(name, priority, phases) ==
  [name |-> name, priority |-> priority, phases |-> phases, enabled |-> TRUE]

\* A sequence without its i-th element.
RemoveAt(l, i) == SubSeq(l, 1, i - 1) \o SubSeq(l, i + 1, Len(l))

\* The element an unstable sort could put first: the last of the objects of
\* least priority.
MinIndexLast(l, objs) ==
  CHOOSE i \in DOMAIN l :
    \A j \in DOMAIN l :
      \/ objs[l[j]].priority > objs[l[i]].priority
      \/ objs[l[j]].priority = objs[l[i]].priority /\ j <= i

\* The element list.sort(key=lambda p: p.priority) puts first: the first of
\* the objects of least priority (the sort is stable).
MinIndex(l, objs) ==
  CHOOSE i \in DOMAIN l :
    \A j \in DOMAIN l :
      \/ objs[l[j]].priority > objs[l[i]].priority
      \/ objs[l[j]].priority = objs[l[i]].priority /\ j >= i

\* `self.phase_plugins[phase].sort(key=lambda p: p.priority)`.
RECURSIVE sort(_, _)
sort(l, objs) ==
  IF l = <<>> THEN <<>>
  ELSE LET i == MinIndex(l, objs)
       IN <<l[i]>> \o sort(RemoveAt(l, i), objs)

\* `[p for p in self.phase_plugins[phase] if p.name != name]`.
RECURSIVE Without(_, _, _)
Without(l, name, objs) ==
  IF l = <<>> THEN <<>>
  ELSE (IF objs[Head(l)].name # name THEN <<Head(l)>> ELSE <<>>)
       \o Without(Tail(l), name, objs)

\* The plugins execute_phase calls: `if not plugin.enabled: continue`.
RECURSIVE Enabled(_, _)
Enabled(l, objs) ==
  IF l = <<>> THEN <<>>
  ELSE (IF objs[Head(l)].enabled THEN <<Head(l)>> ELSE <<>>)
       \o Enabled(Tail(l), objs)

InitPlugins ==
  /\ secrets = {}
  /\ MaskOff
  /\ ThreadsOff
  /\ StreamOff
  /\ SeedOff
  /\ RunOff
  /\ CycleOff
  /\ ServerOff
  /\ FlowOff
  /\ EvalOff
  /\ GitOff
  /\ PrepOff
  /\ ValOff
  /\ RaceOff
  /\ objects = <<>>
  /\ plugins = [n \in Names |-> 0]
  /\ phase_plugins = [ph \in ModelPhases |-> <<>>]
  /\ invoked = NoCall
  /\ disabledNames = {}

\* register_plugin(plugin) with a new Plugin object: the name's entry is
\* overwritten, the object is appended to the list of every phase it
\* supports, and every list is sorted by priority.
RegisterPlugin ==
  \E name \in Names, priority \in Priorities, phases \in SupportedPhases :
    LET id == Len(objects) + 1
        objs == Append(objects, NewPlugin(name, priority, phases))
    IN /\ Len(objects) < MaxObjects
       /\ objects' = objs
       /\ plugins' = [plugins EXCEPT ![name] = id]
       /\ phase_plugins' =
            [ph \in ModelPhases |->
               sort(IF ph \in phases THEN Append(phase_plugins[ph], id)
                                     ELSE phase_plugins[ph], objs)]
       /\ UNCHANGED <<invoked, disabledNames, secrets, NotPlugins>>

\* unregister_plugin(name) for a registered name.
UnregisterPlugin ==
  \E name \in Names :
    /\ plugins[name] # 0
    /\ plugins' = [plugins EXCEPT ![name] = 0]
    /\ phase_plugins' =
         [ph \in ModelPhases |-> Without(phase_plugins[ph], name, objects)]
    /\ UNCHANGED <<objects, invoked, disabledNames, secrets, NotPlugins>>

\* disable_plugin(name): `if name in self.plugins: ...enabled = False`.
DisablePlugin ==
  \E name \in Names :
    /\ name \notin disabledNames
    /\ disabledNames' = disabledNames \cup {name}
    /\ objects' = IF plugins[name] # 0
                  THEN [objects EXCEPT ![plugins[name]].enabled = FALSE]
                  ELSE objects
    /\ UNCHANGED <<plugins, phase_plugins, invoked, secrets, NotPlugins>>

\* enable_plugin(name).
EnablePlugin ==
  \E name \in Names :
    /\ name \in disabledNames
    /\ disabledNames' = disabledNames \ {name}
    /\ objects' = IF plugins[name] # 0
                  THEN [objects EXCEPT ![plugins[name]].enabled = TRUE]
                  ELSE objects
    /\ UNCHANGED <<plugins, phase_plugins, invoked, secrets, NotPlugins>>

\* execute_phase(phase, context) with no plugin raising: the enabled plugins
\* of the phase's list are invoked in list order.
ExecutePhase ==
  \E phase \in ModelPhases :
    /\ invoked' = [phase |-> phase,
                   ids |-> Enabled(phase_plugins[phase], objects),
                   disabled |-> disabledNames]
    /\ UNCHANGED <<objects, plugins, phase_plugins, disabledNames, secrets,
                   NotPlugins>>

NextPlugins ==
  \/ RegisterPlugin
  \/ UnregisterPlugin
  \/ DisablePlugin
  \/ EnablePlugin
  \/ ExecutePhase

SpecPlugins == InitPlugins /\ [][NextPlugins]_vars

\* C12 as stated: every phase's dispatch list holds at most one plugin per
\* name, and it is the one registered last under that name.
C12_DuplicateReplaces ==
  \A ph \in ModelPhases :
    \A i \in DOMAIN phase_plugins[ph] :
      phase_plugins[ph][i] = plugins[objects[phase_plugins[ph][i]].name]

\* The order of a list of objects: ascending priority, and objects of equal
\* priority in the order of their registration.
InOrder(l) ==
  \A i, j \in DOMAIN l :
    i < j =>
      \/ objects[l[i]].priority < objects[l[j]].priority
      \/ objects[l[i]].priority = objects[l[j]].priority /\ l[i] < l[j]

\* C13: after any sequence of register and unregister calls, every phase's
\* list, and what a dispatch of the phase invokes, is in ascending priority
\* with plugins of equal priority in registration order.
C13_PriorityThenRegistration ==
  /\ \A ph \in ModelPhases : InOrder(phase_plugins[ph])
  /\ InOrder(invoked.ids)

\* C13 witness: a dispatch has invoked a plugin that was registered last
\* with the lowest priority, and after it two plugins of equal priority.
C13_Witness ==
  /\ Len(invoked.ids) = 3
  /\ invoked.ids[1] = 3
  /\ objects[invoked.ids[2]].priority = objects[invoked.ids[3]].priority

\* C14 as stated: a dispatch invokes no plugin whose name was disabled and
\* not enabled again when the dispatch was made.
C14_DisabledNotInvoked ==
  \A k \in DOMAIN invoked.ids :
    objects[invoked.ids[k]].name \notin invoked.disabled
\* C15 as stated: a run that has started the registration server has
\* stopped it (and so removed its socket file) by the time it returns or
\* raises.
C15_ServerStoppedAtEnd ==
  runPc = "done" => secret_server # "started"

\* C21: once a keyboard interrupt has hit the inner try of run_container
\* (Popen, the streaming loop, the post_container dispatch), the child is
\* not left running, run_container returns 130 and `run` exits with 130.
C21_InterruptTerminatesAnd130 ==
  process.interrupted # "none" =>
    /\ process.state # "running"
    /\ pending = Return(130)
    /\ rc_result \in {Nothing, Return(130)}
    /\ runPc = "done" => (rc_result = Return(130) /\ exit_status = 130)

\* The interrupt hit the streaming loop while the child ran, a cleanup
\* plugin raised afterwards, and the run has ended.
C21_Witness ==
  /\ process = [state |-> "terminated", interrupted |-> "rc_stream"]
  /\ runPc = "done"
  /\ exit_status = 130
  /\ \E k \in DOMAIN dispatched :
       dispatched[k].phase = CLEANUP /\ dispatched[k].failed # NoError
(***************************************************************************)
(* SpecCycle: start/stop cycles of one SecretRegistrationServer on one     *)
(* socket path (secrets_server.py start, stop, _serve).                    *)
(***************************************************************************)
MaxCycles == 3

\* stop() without the unlink: the file stays as it was.
PathKept(exists) == exists

\* `if socket_path.exists(): socket_path.unlink()`: whether the file exists
\* afterwards.
PathAfterUnlink(exists) == FALSE

InitCycle ==
  /\ secrets = {}
  /\ MaskOff
  /\ ThreadsOff
  /\ StreamOff
  /\ SeedOff
  /\ RunOff
  /\ PluginsOff
  /\ ServerOff
  /\ FlowOff
  /\ EvalOff
  /\ GitOff
  /\ PrepOff
  /\ ValOff
  /\ RaceOff
  /\ running = FALSE
  /\ server_socket = "none"
  /\ socket_file \in BOOLEAN   \* a file left at the path by an earlier process
  /\ serve_threads = <<>>
  /\ lastCall = "none"
  /\ countAtStop = 0

\* start(): a stale file is unlinked, the socket is bound (which creates
\* the file) and listens, `running` is set and a _serve thread is started.
Start ==
  /\ ~running
  /\ Len(serve_threads) < MaxCycles
  /\ socket_file' = TRUE
  /\ server_socket' = "listening"
  /\ running' = TRUE
  /\ serve_threads' = Append(serve_threads, "select")
  /\ lastCall' = "start"
  /\ UNCHANGED <<countAtStop, secrets, NotCycle>>

\* start() on a running server: `if self.running: return`.
StartRunning ==
  /\ running
  /\ lastCall # "start_running"
  /\ lastCall' = "start_running"
  /\ UNCHANGED <<running, server_socket, socket_file, serve_threads,
                 countAtStop, secrets, NotCycle>>

\* start() in which bind raises: the stale file is gone, the new socket is
\* not bound, `running` stays False.
StartFails ==
  /\ ~running
  /\ lastCall # "start_failed"
  /\ socket_file' = PathAfterUnlink(socket_file)
  /\ server_socket' = "unbound"
  /\ lastCall' = "start_failed"
  /\ UNCHANGED <<running, serve_threads, countAtStop, secrets, NotCycle>>

\* stop() on a running server: the flag is cleared, the listener closed, the
\* current thread joined for at most a second (a thread inside a client
\* handler may outlive the join), the socket file unlinked.
Stop ==
  \E joined \in BOOLEAN :
    LET t == Len(serve_threads)
    IN /\ running
       /\ joined \/ serve_threads[t] = "handle"
       /\ running' = FALSE
       /\ server_socket' = "closed"
       /\ serve_threads' =
            [k \in DOMAIN serve_threads |->
               IF k = t /\ joined THEN "exited"
               ELSE IF serve_threads[k] = "handle" THEN "outlived"
               ELSE serve_threads[k]]
       /\ socket_file' = PathAfterUnlink(socket_file)
       /\ lastCall' = "stop"
       /\ countAtStop' = server_count
       /\ UNCHANGED <<secrets, NotCycle>>

\* stop() on a server that is not running: `if not self.running: return`.
StopNotRunning ==
  /\ ~running
  /\ lastCall \notin {"stop", "stop_not_running"}
  /\ lastCall' = "stop_not_running"
  /\ UNCHANGED <<running, server_socket, socket_file, serve_threads,
                 countAtStop, secrets, NotCycle>>

\* A mutant of MayAccept: a connection is accepted whatever the flag and
\* the listener are.
MayAcceptAlways(flag, listener) == TRUE

\* `while self.running:` and an accept() that succeeds: the flag is set
\* and the listener is open.
MayAccept(flag, listener) == flag /\ listener = "listening"

\* _serve: select reports the listener readable and a client is accepted.
ServeAccept ==
  \E t \in DOMAIN serve_threads :
    /\ serve_threads[t] = "select"
    /\ MayAccept(running, server_socket)
    /\ serve_threads' = [serve_threads EXCEPT ![t] = "handle"]
    /\ UNCHANGED <<running, server_socket, socket_file, lastCall,
                   countAtStop, secrets, NotCycle>>

\* The secret a client of the cycle model registers.
CycleSecret == <<"R", "D", "E">>

\* _handle_client handles the client's message and returns to the loop of
\* _serve: a register request with n valid secrets adds them to the masker
\* and n to _registered_count; any other exchange changes neither.  The
\* handler does not look at `running`.
ServeHandled ==
  \E t \in DOMAIN serve_threads :
    \E n \in IF server_count < MaxCycles THEN {0, 1} ELSE {0} :
      /\ serve_threads[t] \in {"handle", "outlived"}
      /\ serve_threads' = [serve_threads EXCEPT ![t] = "select"]
      /\ secrets' = IF n = 1 THEN AddSecret(secrets, CycleSecret) ELSE secrets
      /\ server_count' = server_count + n
      /\ UNCHANGED <<running, server_socket, socket_file, lastCall,
                     countAtStop, maskVars, threadVars, streamVars, seedVars, runVars,
                     pluginVars, conn, backlog, handler, flowVars, evalVars,
                     gitVars, prepVars, valVars, raceVars>>

\* `while self.running:` is false and the thread ends.
ServeExit ==
  \E t \in DOMAIN serve_threads :
    /\ serve_threads[t] = "select"
    /\ ~running
    /\ serve_threads' = [serve_threads EXCEPT ![t] = "exited"]
    /\ UNCHANGED <<running, server_socket, socket_file, lastCall,
                   countAtStop, secrets, NotCycle>>

NextCycle ==
  \/ Start
  \/ StartRunning
  \/ StartFails
  \/ Stop
  \/ StopNotRunning
  \/ ServeAccept
  \/ ServeHandled
  \/ ServeExit

SpecCycle == InitCycle /\ [][NextCycle]_vars

\* C16: from the return of a stop() that stopped a started server until
\* the next start or stop call, the listener is closed and no file exists
\* at the socket path, in every cycle.
C16_StoppedMeansGone ==
  lastCall = "stop" => (server_socket = "closed" /\ ~socket_file /\ ~running)

\* C16 witness: the stop() of the third cycle has returned while a _serve
\* thread of an earlier cycle is still inside a client handler.
C16_Witness ==
  /\ lastCall = "stop"
  /\ Len(serve_threads) = MaxCycles
  /\ \E t \in DOMAIN serve_threads : serve_threads[t] = "outlived"

\* C38 as stated: from the return of stop() on, nothing is added to the
\* masker's secret set or to the registered counter through the server.
C38_StopQuiesces ==
  [][lastCall = "stop" =>
       (secrets' = secrets /\ server_count' = server_count)]_vars

\* C38 (as amended): from the return of stop() on, the masker's secret set
\* and the registered counter are changed through the server only by the
\* handler of a connection that was accepted before stop closed the
\* listener and that outlasted stop's wait.
C38_StopQuiescesAccept ==
  [][(lastCall = "stop"
        /\ (secrets' # secrets \/ server_count' # server_count)) =>
       \E t \in DOMAIN serve_threads :
         serve_threads[t] = "outlived" /\ serve_threads'[t] = "select"]_vars

\* stop() has returned and a handler that outlasted it has registered a
\* secret since: the counter and the masker have grown.
C38_Witness ==
  /\ lastCall = "stop"
  /\ ~running
  /\ server_count > countAtStop
  /\ CycleSecret \in secrets
(***************************************************************************)
(* SpecServer: the running server and its clients (secrets_server.py       *)
(* _serve, _handle_client).  Connections are handled one at a time by the  *)
(* _serve thread.  Time passes in ticks, and only while the handler is     *)
(* blocked in a recv; a recv gives up after TimeoutTicks ticks.            *)
(***************************************************************************)
TimeoutTicks == 2
MaxMessageLen == 2
ServeBound == TimeoutTicks * (1 + MaxMessageLen)

\* What a client can send: a body of `size` units that is a register
\* request, a request with another action, a JSON value that is not an
\* object, or no JSON; and a length prefix beyond the maximum.
Messages ==
  {[kind |-> "register", size |-> 2, secrets |-> sec] :
     sec \in {<< <<"R", "D", "E">> >>,
              << <<"R", "D", "E">>, <<>>, NonString >>,
              << <<"E", "E", "E">>, <<"E", "E", "E">> >>}}
  \cup {[kind |-> k, size |-> 1, secrets |-> <<>>] :
          k \in {"other", "notjson", "nonobject"}}
  \cup {[kind |-> "register", size |-> MaxMessageLen + 1, secrets |-> <<>>]}

\* A recv that never gives up.
TimedOutNever(waited) == FALSE

\* `client_socket.settimeout(5.0)`: a recv raises socket.timeout once it
\* has waited that long.
TimedOut(waited) == waited >= TimeoutTicks

\* What the handler sends for a complete body: the JSON error, the unknown
\* action error, the ok response; for a JSON value that is not an object
\* `message.get` raises and nothing is sent.
ResponseTo(msg) ==
  CASE msg.kind = "notjson" -> "invalid_json"
    [] msg.kind = "nonobject" -> "none"
    [] msg.kind = "register" -> "ok"
    [] OTHER -> "unknown_action"

InitServer ==
  /\ secrets = {}
  /\ MaskOff
  /\ ThreadsOff
  /\ StreamOff
  /\ SeedOff
  /\ RunOff
  /\ PluginsOff
  /\ CycleOff
  /\ FlowOff
  /\ EvalOff
  /\ GitOff
  /\ PrepOff
  /\ ValOff
  /\ RaceOff
  /\ conn = [c \in Clients |-> NotConnected]
  /\ backlog = <<>>
  /\ handler = InSelect
  /\ server_count = 0

\* A client connects; the connection waits in the listener's queue.
Connect ==
  \E c \in Clients, msg \in Messages :
    /\ conn[c].state = "idle"
    /\ conn' = [conn EXCEPT ![c].state = "queued", ![c].msg = msg]
    /\ backlog' = Append(backlog, c)
    /\ UNCHANGED <<handler, server_count, secrets, NotServer>>

Live(c) == conn[c].state \in {"queued", "open"} /\ ~conn[c].hung

\* The client sends the 4-byte length, or only a part of it.
SendPrefix ==
  \E c \in Clients, part \in {"partial", "full"} :
    /\ Live(c)
    /\ conn[c].prefix = "none" \/ (conn[c].prefix = "partial" /\ part = "full")
    /\ conn' = [conn EXCEPT ![c].prefix = part]
    /\ UNCHANGED <<backlog, handler, server_count, secrets, NotServer>>

\* The client sends one more unit of the body.
SendBody ==
  \E c \in Clients :
    /\ Live(c)
    /\ conn[c].prefix = "full"
    /\ conn[c].sent < conn[c].msg.size
    /\ conn' = [conn EXCEPT ![c].sent = @ + 1]
    /\ UNCHANGED <<backlog, handler, server_count, secrets, NotServer>>

\* The client closes its end before it has sent a whole request.
Hang ==
  \E c \in Clients :
    /\ Live(c)
    /\ ~(conn[c].prefix = "full" /\ conn[c].sent = conn[c].msg.size)
    /\ conn' = [conn EXCEPT ![c].hung = TRUE]
    /\ UNCHANGED <<backlog, handler, server_count, secrets, NotServer>>

\* _serve: `client_socket, _ = self.server_socket.accept()`.
Accept ==
  /\ handler.pc = "select"
  /\ backlog # <<>>
  /\ handler' = [InSelect EXCEPT !.pc = "recv_length", !.client = Head(backlog)]
  /\ conn' = [conn EXCEPT ![Head(backlog)].state = "open"]
  /\ backlog' = Tail(backlog)
  /\ UNCHANGED <<server_count, secrets, NotServer>>

\* The handler waits in a recv for which nothing has arrived.
Blocked ==
  /\ handler.pc # "select"
  /\ ~conn[handler.client].hung
  /\ \/ handler.pc = "recv_length" /\ conn[handler.client].prefix = "none"
     \/ handler.pc = "recv_body" /\ conn[handler.client].sent = handler.got

\* `finally: client_socket.close()` and the return to _serve.
Closed(c, response, registered, complete) ==
  /\ conn' = [conn EXCEPT ![c].state = "closed", ![c].response = response,
                          ![c].registered = registered,
                          ![c].complete = complete]
  /\ handler' = InSelect

\* `length_data = client_socket.recv(4)`: a whole prefix within the limit
\* leads to the body; a short read, an end of file or a length over the
\* limit ends the connection.
RecvLength ==
  LET c == handler.client
  IN /\ handler.pc = "recv_length"
     /\ conn[c].prefix # "none" \/ conn[c].hung
     /\ IF conn[c].prefix = "full" /\ conn[c].msg.size <= MaxMessageLen
        THEN /\ handler' = [handler EXCEPT !.pc = "recv_body", !.waited = 0]
             /\ UNCHANGED conn
        ELSE Closed(c, "none", 0, FALSE)
     /\ UNCHANGED <<backlog, server_count, secrets, NotServer>>

\* One recv of the body loop.  With the whole body read the message is
\* parsed and answered: a register request registers and counts its
\* non-empty strings and is answered ok with its count.
RecvBody ==
  LET c == handler.client
      msg == conn[c].msg
      n == Cardinality(Counted(msg.secrets))
  IN /\ handler.pc = "recv_body"
     /\ conn[c].sent > handler.got \/ conn[c].hung
     /\ IF conn[c].sent = handler.got
        THEN \* recv returned b'': incomplete message
             /\ Closed(c, "none", 0, FALSE)
             /\ UNCHANGED <<server_count, secrets>>
        ELSE IF conn[c].sent < msg.size
        THEN /\ handler' = [handler EXCEPT !.got = conn[c].sent, !.waited = 0]
             /\ UNCHANGED <<conn, server_count, secrets>>
        ELSE IF msg.kind = "register"
        THEN /\ secrets' = RegisterAll(secrets, msg.secrets)
             /\ server_count' = server_count + n
             /\ Closed(c, ResponseTo(msg), n, TRUE)
        ELSE /\ Closed(c, ResponseTo(msg), 0, TRUE)
             /\ UNCHANGED <<server_count, secrets>>
     /\ UNCHANGED <<backlog, NotServer>>

\* `except socket.timeout`: the blocked recv gives up.
RecvTimeout ==
  /\ Blocked
  /\ TimedOut(handler.waited)
  /\ Closed(handler.client, "none", 0, FALSE)
  /\ UNCHANGED <<backlog, server_count, secrets, NotServer>>

\* A tick passes while the handler is blocked; the connections in the queue
\* wait as long.
Tick ==
  /\ Blocked
  /\ ~TimedOut(handler.waited)
  /\ handler.elapsed <= ServeBound
  /\ handler' = [handler EXCEPT !.waited = @ + 1, !.elapsed = @ + 1]
  /\ conn' = [c \in Clients |->
                IF conn[c].state = "queued"
                THEN [conn[c] EXCEPT !.queuedFor = @ + 1] ELSE conn[c]]
  /\ UNCHANGED <<backlog, server_count, secrets, NotServer>>

NextServer ==
  \/ Connect
  \/ SendPrefix
  \/ SendBody
  \/ Hang
  \/ Accept
  \/ RecvLength
  \/ RecvBody
  \/ RecvTimeout
  \/ Tick

SpecServer == InitServer /\ [][NextServer]_vars

\* C17: a connection is in its handler for at most TimeoutTicks for the
\* length and for each unit of the body, whatever the client does, and the
\* connection queued behind it waits no longer than that before it is
\* accepted.
C17_NoClientBlocksServer ==
  /\ handler.pc # "select" => handler.elapsed <= ServeBound
  /\ \A c \in Clients : conn[c].queuedFor <= ServeBound

\* C17 witness: a client that sent only a part of its body was closed by
\* the timeout, and a client that had to wait behind it was served.
C17_Witness ==
  \E c, d \in Clients :
    /\ conn[c].state = "closed" /\ ~conn[c].hung /\ ~conn[c].complete
    /\ conn[c].sent = 1 /\ conn[c].msg.size = 2
    /\ conn[d].queuedFor = ServeBound
    /\ conn[d].response = "ok"
\* C18 as stated: a complete request whose body is not JSON is answered
\* with ERROR: Invalid JSON, one whose body is JSON with an action other
\* than register (or with none) with ERROR: Unknown action; neither
\* registers a value, and the handler is back in _serve afterwards.
C18_ErrorsAnswered ==
  \A c \in Clients :
    (conn[c].complete /\ conn[c].msg.kind # "register") =>
      /\ conn[c].response =
           IF conn[c].msg.kind = "notjson" THEN "invalid_json"
                                           ELSE "unknown_action"
      /\ conn[c].registered = 0
      /\ handler.client # c

\* The number of non-empty strings in a request's list.
NonEmptyStrings(req) ==
  Cardinality({i \in DOMAIN req : req[i] # NonString /\ Len(req[i]) > 0})

RECURSIVE SumOver(_, _)
SumOver(S, f) ==
  IF S = {} THEN 0
  ELSE LET x == CHOOSE x \in S : TRUE IN f[x] + SumOver(S \ {x}, f)

\* C19: the server's counter is the number of non-empty strings in the
\* register requests answered so far, and every ok response carries the
\* number of non-empty strings of its own request.
C19_CounterConsistent ==
  /\ server_count =
       SumOver({c \in Clients : conn[c].response = "ok"},
               [c \in Clients |-> NonEmptyStrings(conn[c].msg.secrets)])
  /\ \A c \in Clients :
       conn[c].response = "ok" =>
         conn[c].registered = NonEmptyStrings(conn[c].msg.secrets)

\* C19 witness: two clients were connected at the same time and both were
\* answered; one request held an empty and a non-string entry, the other
\* the same string twice.
C19_Witness ==
  /\ \A c \in Clients : conn[c].response = "ok"
  /\ \E c \in Clients : Len(conn[c].msg.secrets) = 3 /\ conn[c].registered = 1
  /\ \E c \in Clients : conn[c].queuedFor > 0 /\ conn[c].registered = 2
  /\ server_count = 3
\* The parent waits in a readline of one pipe for a child that is alive.
ParentWaitsOn(stream) ==
  /\ ~child.exited
  /\ \/ stream = "stdout" /\ par.pc = "read_out" /\ outPipe = <<>>
     \/ stream = "stderr" /\ par.pc = "read_err" /\ errPipe = <<>>

\* C20 as stated: the parent never waits on one stream while the child is
\* blocked writing to the other.
C20_NeverWaitsOnTheOther ==
  /\ ~(ParentWaitsOn("stdout") /\ child.writing = "stderr")
  /\ ~(ParentWaitsOn("stderr") /\ child.writing = "stdout")

(***************************************************************************)
(* SpecFlow: a job script queues triggers inside `with workflow_context()` *)
(* and they are flushed to the triggers file (workflow.py).  A file is a   *)
(* record: its kind ("absent", "doc" for a JSON object with a jobs array,  *)
(* "nojobs" for an object without one, "nondict" for another JSON value,   *)
(* "invalid" for text that is not JSON, "partial" for a document being     *)
(* written) and the jobs it holds.                                         *)
(***************************************************************************)
MaxTriggers == 2      \* most triggers queued by one script
MaxFlushes == 2       \* most flush_triggers calls made in the scope's body
MaxPersisted == 1     \* most jobs in the file before the script starts

\* JobTrigger objects: a name and one optional field.
JobTriggers ==
  {[job_name |-> "build", timeout |-> "None"],
   [job_name |-> "test", timeout |-> "30"]}

\* JobTrigger.to_dict: the fields as key/value pairs, None values left out.
to_dict(t) ==
  <<<<"job_name", t.job_name>>>>
    \o (IF t.timeout # "None" THEN <<<<"timeout", t.timeout>>>> ELSE <<>>)

\* `[t.to_dict() for t in self.triggers]`
ToDicts(q) == [k \in DOMAIN q |-> to_dict(q[k])]

\* The files a script can find at the path.
InitialFiles ==
  {Absent}
    \cup {[kind |-> k, jobs |-> <<>>] : k \in {"nojobs", "nondict", "invalid"}}
    \cup {[kind |-> "doc", jobs |-> ToDicts(q)] :
            q \in UNION {[1..n -> JobTriggers] : n \in 0..MaxPersisted}}

BodyError == <<"ValueError", "body">>
AttributeError == <<"AttributeError", "data.get">>

\* `json.load(f)` then `data.get("jobs", [])`: what flush_triggers raises
\* while reading the file (JSONDecodeError and KeyError are passed over).
ReadRaises(file) == IF file.kind = "nondict" THEN AttributeError ELSE NoError

\* existing_triggers after the read.
ExistingTriggers(file) == IF file.kind = "doc" THEN file.jobs ELSE <<>>

\* A mutant of AllTriggers: the file's jobs are not carried over.
AllTriggersNewOnly(existing, queued) == ToDicts(queued)

\* `all_triggers = existing_triggers + [t.to_dict() for t in self.triggers]`
AllTriggers(existing, queued) == existing \o ToDicts(queued)

\* A mutant of ShouldFlush: __exit__ flushes whatever happened in the body.
ShouldFlushAlways(exc_type) == TRUE

\* workflow_context.__exit__: `if exc_type is None`.
ShouldFlush(exc_type) == exc_type = NoError

InitFlow ==
  /\ secrets = {}
  /\ MaskOff
  /\ ThreadsOff
  /\ StreamOff
  /\ SeedOff
  /\ RunOff
  /\ PluginsOff
  /\ CycleOff
  /\ ServerOff
  /\ EvalOff
  /\ GitOff
  /\ PrepOff
  /\ ValOff
  /\ RaceOff
  /\ triggers = <<>>
  /\ api \in {a \in [coordinator_url : BOOLEAN, api_token : BOOLEAN,
                      job_id : BOOLEAN, response : {"2xx", "5xx", "refused"}] :
                a.api_token = a.job_id}
  /\ triggers_file \in InitialFiles
  /\ flow = [NoFlow EXCEPT !.pc = "body"]
  /\ flowHist = [NoFlowHist EXCEPT !.initial = triggers_file]

\* WorkflowContext.trigger_job: a JobTrigger is appended to self.triggers.
TriggerJob ==
  \E t \in JobTriggers :
    /\ flow.pc = "body"
    /\ Len(triggers) < MaxTriggers
    /\ triggers' = Append(triggers, t)
    /\ UNCHANGED <<api, triggers_file, flow, flowHist, secrets, NotFlow>>

\* The scope is left with the exception exc (NoError when the body ended).
Leave(exc, hist) ==
  /\ flow' = [NoFlow EXCEPT !.pc = "exited"]
  /\ flowHist' = [hist EXCEPT !.propagated = exc]

\* flush_triggers up to the write: return when nothing is queued, read the
\* file, build all_triggers.  `caller` is "manual" for a call in the body
\* and "exit" for the call of __exit__; hist is the history so far.
EnterFlush(caller, hist) ==
  IF triggers = <<>>
  THEN IF caller = "exit" THEN Leave(hist.exc, hist)
       ELSE flow' = flow /\ flowHist' = [hist EXCEPT !.flushes = @ + 1]
  ELSE IF ReadRaises(triggers_file) # NoError
       THEN Leave(ReadRaises(triggers_file), hist)
       ELSE /\ flow' =
                 [pc |-> "flush_open", caller |-> caller,
                  existing_triggers |-> ExistingTriggers(triggers_file),
                  all_triggers |->
                    AllTriggers(ExistingTriggers(triggers_file), triggers)]
            /\ flowHist' = [hist EXCEPT !.before = triggers_file,
                                        !.queued = triggers]

\* `ctx.flush_triggers()` called in the body of the scope.
ManualFlush ==
  /\ flow.pc = "body"
  /\ flowHist.flushes < MaxFlushes
  /\ EnterFlush("manual", flowHist)
  /\ UNCHANGED <<triggers, api, triggers_file, secrets, NotFlow>>

\* The body ends or raises and __exit__(exc_type, ...) runs: it flushes
\* when ShouldFlush, and returns False so that an exception propagates.
ScopeExit ==
  \E exc \in {NoError, BodyError} :
    LET hist == [flowHist EXCEPT !.atExit = triggers_file, !.exc = exc]
    IN /\ flow.pc = "body"
       /\ IF ShouldFlush(exc) THEN EnterFlush("exit", hist)
          ELSE Leave(exc, hist)
       /\ UNCHANGED <<triggers, api, triggers_file, secrets, NotFlow>>

\* `open(self.triggers_file, 'w')`: the file is created or truncated.
FlushOpen ==
  /\ flow.pc = "flush_open"
  /\ triggers_file' = [kind |-> "partial", jobs |-> <<>>]
  /\ flow' = [flow EXCEPT !.pc = "flush_write"]
  /\ UNCHANGED <<triggers, api, flowHist, secrets, NotFlow>>

\* json.dump writes the document piece by piece: the next job reaches the
\* file.
FlushWrite ==
  /\ flow.pc = "flush_write"
  /\ Len(triggers_file.jobs) < Len(flow.all_triggers)
  /\ triggers_file' =
       [triggers_file EXCEPT
          !.jobs = Append(@, flow.all_triggers[Len(@) + 1])]
  /\ UNCHANGED <<triggers, api, flow, flowHist, secrets, NotFlow>>

\* The end of the `with open(...)` block: the document is complete and
\* flush_triggers returns to its caller.
FlushClose ==
  /\ flow.pc = "flush_write"
  /\ Len(triggers_file.jobs) = Len(flow.all_triggers)
  /\ triggers_file' = [triggers_file EXCEPT !.kind = "doc"]
  /\ IF flow.caller = "exit"
     THEN Leave(flowHist.exc, [flowHist EXCEPT !.flushes = @ + 1])
     ELSE /\ flow' = [NoFlow EXCEPT !.pc = "body"]
          /\ flowHist' = [flowHist EXCEPT !.flushes = @ + 1]
  /\ UNCHANGED <<triggers, api, secrets, NotFlow>>

\* The process is killed (the job's time limit, the container stopping)
\* while it is inside flush_triggers.
Killed ==
  /\ flow.pc \in {"flush_open", "flush_write"}
  /\ flow' = [flow EXCEPT !.pc = "killed"]
  /\ UNCHANGED <<triggers, api, triggers_file, flowHist, secrets, NotFlow>>

NextFlow ==
  \/ TriggerJob
  \/ ManualFlush
  \/ ScopeExit
  \/ FlushOpen
  \/ FlushWrite
  \/ FlushClose
  \/ Killed

SpecFlow == InitFlow /\ [][NextFlow]_vars

\* The three settings flush needs to reach the coordinator.
ApiConfigured == api.coordinator_url /\ api.api_token /\ api.job_id

\* A flush that found triggers queued has written the file and returned,
\* and no later flush has started.
FlushReturned ==
  /\ flow.pc \in {"body", "exited"}
  /\ flowHist.queued # <<>>

\* C22: without a coordinator configured, once a flush with triggers queued
\* has returned, the file is a document whose jobs array is the array the
\* file held before that flush followed by the queued triggers in order.
C22_FlushAppends ==
  (~ApiConfigured /\ FlushReturned) =>
    LET previous == IF flowHist.before.kind = "doc" THEN flowHist.before.jobs
                    ELSE <<>>
        new == [k \in DOMAIN flowHist.queued |-> to_dict(flowHist.queued[k])]
    IN /\ triggers_file.kind = "doc"
       /\ Len(triggers_file.jobs) = Len(previous) + Len(new)
       /\ \A k \in DOMAIN previous : triggers_file.jobs[k] = previous[k]
       /\ \A k \in DOMAIN new :
            triggers_file.jobs[Len(previous) + k] = new[k]

\* A flush of two triggers onto a file that held a job has returned.
C22_Witness ==
  /\ ~ApiConfigured
  /\ FlushReturned
  /\ flowHist.before.kind = "doc" /\ Len(flowHist.before.jobs) = 1
  /\ Len(flowHist.queued) = 2
  /\ flowHist.queued[1] # flowHist.queued[2]
  /\ flowHist.before.jobs[1] # to_dict(flowHist.queued[1])

\* C23 as stated: at every instant of a flush, also when the process is
\* killed in the middle of it, the file is the complete previous document
\* or the complete new one.
C23_AtomicRewrite ==
  flow.pc \in {"flush_open", "flush_write", "killed"} =>
    \/ triggers_file = flowHist.before
    \/ triggers_file = [kind |-> "doc", jobs |-> flow.all_triggers]

\* C24: when the scope has been left, an exception of the body has
\* propagated unchanged and the file is as it was when __exit__ was
\* entered; without an exception, and with triggers queued, the flush has
\* written them.
C24_ExitFlushesUnlessException ==
  /\ flow.caller = "exit" => flowHist.exc = NoError
  /\ flow.pc = "exited" =>
       IF flowHist.exc # NoError
       THEN /\ flowHist.propagated = flowHist.exc
            /\ triggers_file = flowHist.atExit
       ELSE (triggers # <<>> /\ flowHist.propagated = NoError) =>
              /\ triggers_file.kind = "doc"
              /\ flowHist.before = flowHist.atExit
              /\ flowHist.queued = triggers
              /\ Len(triggers_file.jobs) >= Len(triggers)
              /\ \A k \in DOMAIN triggers :
                   triggers_file.jobs[Len(triggers_file.jobs)
                                        - Len(triggers) + k]
                     = to_dict(triggers[k])

\* The body queued a trigger and raised; the scope has been left.
C24_Witness ==
  /\ flow.pc = "exited"
  /\ flowHist.exc = BodyError
  /\ triggers # <<>>
  /\ flowHist.flushes = 0
  /\ triggers_file.kind = "doc"

\* C25 as stated: with the three settings present and a coordinator that
\* answers 2xx, no triggers file exists after a flush; otherwise the file
\* exists and holds the pending triggers.
C25_ApiSuccessRemovesFile ==
  (FlushReturned /\ flowHist.flushes > 0) =>
    IF ApiConfigured /\ api.response = "2xx"
    THEN triggers_file.kind = "absent"
    ELSE /\ triggers_file.kind = "doc"
         /\ \A k \in DOMAIN flowHist.queued :
              \E i \in DOMAIN triggers_file.jobs :
                triggers_file.jobs[i] = to_dict(flowHist.queued[k])

\* C34: each queued trigger is written to the file once: after a flush has
\* returned, the jobs of the file are those it held when the context was
\* created followed by the triggers queued up to that flush, each once.
C34_WrittenOnce ==
  (FlushReturned /\ triggers_file.kind = "doc") =>
    triggers_file.jobs =
      ExistingTriggers(flowHist.initial) \o ToDicts(flowHist.queued)

(***************************************************************************)
(* SpecRace: two processes, each with its own WorkflowContext, were given  *)
(* the same triggers file and call flush_triggers.  Nothing in             *)
(* flush_triggers locks the file: the read, the open and the buffered      *)
(* write at close are separate steps of each process.                      *)
(***************************************************************************)
Contexts == {"p1", "p2"}

\* The queues a context can hold when it flushes.
Queues == UNION {[1..n -> JobTriggers] : n \in 1..MaxTriggers}

InitRace ==
  /\ secrets = {}
  /\ MaskOff
  /\ ThreadsOff
  /\ StreamOff
  /\ SeedOff
  /\ RunOff
  /\ PluginsOff
  /\ CycleOff
  /\ ServerOff
  /\ FlowOff
  /\ EvalOff
  /\ GitOff
  /\ PrepOff
  /\ ValOff
  /\ shared_file \in InitialFiles
  /\ \E q \in [Contexts -> Queues] :
       ctxs = [c \in Contexts |->
                 [pc |-> "read", triggers |-> q[c], all_triggers |-> <<>>,
                  found |-> shared_file, raised |-> NoError]]

\* flush_triggers up to the write: the file is read and all_triggers built.
RaceRead(c) ==
  /\ ctxs[c].pc = "read"
  /\ IF ReadRaises(shared_file) # NoError
       THEN ctxs' = [ctxs EXCEPT ![c].pc = "raised",
                                 ![c].raised = ReadRaises(shared_file)]
       ELSE ctxs' = [ctxs EXCEPT
                       ![c].pc = "open",
                       ![c].all_triggers =
                         AllTriggers(ExistingTriggers(shared_file),
                                     ctxs[c].triggers)]
  /\ UNCHANGED <<shared_file, secrets, NotRace>>

\* `open(self.triggers_file, 'w')`: the file is created or truncated.
RaceOpen(c) ==
  /\ ctxs[c].pc = "open"
  /\ shared_file' = [kind |-> "partial", jobs |-> <<>>]
  /\ ctxs' = [ctxs EXCEPT ![c].pc = "close"]
  /\ UNCHANGED <<secrets, NotRace>>

\* What the file holds after a process wrote document `doc` from offset 0:
\* the document, or the document followed by the rest of a longer one that
\* the other process wrote in the meantime, which is not JSON.
Overwritten(file, doc) ==
  IF Len(file.jobs) > Len(doc)
    THEN [kind |-> "invalid", jobs |-> <<>>]
    ELSE [kind |-> "doc", jobs |-> doc]

\* json.dump and the end of the `with open(...)` block: the buffered
\* document reaches the file and flush_triggers returns.
RaceClose(c) ==
  /\ ctxs[c].pc = "close"
  /\ shared_file' = Overwritten(shared_file, ctxs[c].all_triggers)
  /\ ctxs' = [ctxs EXCEPT ![c].pc = "done"]
  /\ UNCHANGED <<secrets, NotRace>>

NextRace ==
  \E c \in Contexts :
    \/ RaceRead(c)
    \/ RaceOpen(c)
    \/ RaceClose(c)

SpecRace == InitRace /\ [][NextRace]_vars

\* C40: when the flushes of both contexts have returned, the file holds
\* what it held before and, after that, every trigger of both flushes.
C40_NoLostUpdate ==
  (\A c \in Contexts : ctxs[c].pc = "done") =>
    /\ shared_file.kind = "doc"
    /\ \E first \in Contexts :
         \E second \in Contexts \ {first} :
           shared_file.jobs =
             ExistingTriggers(ctxs[first].found)
               \o ToDicts(ctxs[first].triggers)
               \o ToDicts(ctxs[second].triggers)

(***************************************************************************)
(* SpecGlob: the glob matcher of the evaluator (eval.py branch_matches,    *)
(* _glob_match_path, _match_segments).  Patterns and targets are strings   *)
(* built from a few segments joined by "/".                                *)
(***************************************************************************)
MaxPatternSegs == 3   \* most segments of a pattern
MaxTargetSegs == 4    \* most segments of a branch name or path

\* The segments patterns and targets are built from.
PatternSegs ==
  {<<>>, <<"a">>, <<"*">>, <<"?">>, <<"*", "*">>, <<"a", "*">>, <<"?", "b">>}
TargetSegs == {<<>>, <<"b">>, <<"a", "b">>}

\* "/".join(segs)
RECURSIVE Join(_)
Join(segs) ==
  IF Len(segs) = 1 THEN segs[1] ELSE segs[1] \o <<"/">> \o Join(Tail(segs))

Joined(S, n) == {Join(segs) : segs \in UNION {[1..k -> S] : k \in 1..n}}

\* fnmatch.fnmatch(name, pat) for patterns of literals, * and ?: the whole
\* name must match.
RECURSIVE fnmatch(_, _)
fnmatch(name, pat) ==
  IF pat = <<>> THEN name = <<>>
  ELSE IF pat[1] = "*"
       THEN \/ fnmatch(name, Tail(pat))
            \/ name # <<>> /\ fnmatch(Tail(name), pat)
       ELSE /\ name # <<>>
            /\ pat[1] = "?" \/ pat[1] = name[1]
            /\ fnmatch(Tail(name), Tail(pat))

\* A mutant of IsGlobstar: "**" is an ordinary segment pattern.
IsGlobstarNever(part) == FALSE

\* `pattern_parts[0] == "**"`
IsGlobstar(part) == part = <<"*", "*">>

\* _match_segments(pattern_parts, branch_parts)
RECURSIVE match_segments(_, _)
match_segments(pattern_parts, branch_parts) ==
  IF pattern_parts = <<>> /\ branch_parts = <<>> THEN TRUE
  ELSE IF pattern_parts = <<>> THEN FALSE
  ELSE IF branch_parts = <<>>
       THEN \A k \in DOMAIN pattern_parts : IsGlobstar(pattern_parts[k])
  ELSE IF IsGlobstar(pattern_parts[1])
       THEN \/ match_segments(Tail(pattern_parts), branch_parts)
            \/ match_segments(pattern_parts, Tail(branch_parts))
  ELSE /\ fnmatch(branch_parts[1], pattern_parts[1])
       /\ match_segments(Tail(pattern_parts), Tail(branch_parts))

\* branch_matches(pattern, branch)
branch_matches(pattern, branch) ==
  match_segments(split(pattern, "/"), split(branch, "/"))

\* _glob_match_path(pattern, file_path)
glob_match_path(pattern, file_path) ==
  match_segments(split(pattern, "/"), split(file_path, "/"))

InitGlob ==
  /\ secrets = {}
  /\ MaskOff
  /\ ThreadsOff
  /\ StreamOff
  /\ SeedOff
  /\ RunOff
  /\ PluginsOff
  /\ CycleOff
  /\ ServerOff
  /\ FlowOff
  /\ GitOff
  /\ PrepOff
  /\ ValOff
  /\ RaceOff
  /\ ev = NoEvent /\ evalPc = "off" /\ evalOut = NoEvalOut
  /\ \E p \in Joined(PatternSegs, MaxPatternSegs),
        t \in Joined(TargetSegs, MaxTargetSegs) :
       glob = [NoGlob EXCEPT !.pattern = p, !.target = t]

BranchMatches ==
  /\ glob.called = "none"
  /\ glob' = [glob EXCEPT !.called = "branch_matches",
                          !.result = branch_matches(glob.pattern, glob.target)]
  /\ UNCHANGED <<ev, evalPc, evalOut, secrets, NotEval>>

GlobMatchPath ==
  /\ glob.called = "none"
  /\ glob' = [glob EXCEPT !.called = "_glob_match_path",
                          !.result = glob_match_path(glob.pattern, glob.target)]
  /\ UNCHANGED <<ev, evalPc, evalOut, secrets, NotEval>>

NextGlob == BranchMatches \/ GlobMatchPath

SpecGlob == InitGlob /\ [][NextGlob]_vars

\* The sum of the first i values of the function g.
RECURSIVE PrefixSum(_, _)
PrefixSum(g, i) == IF i = 0 THEN 0 ELSE g[i] + PrefixSum(g, i - 1)

\* A segment pattern matches a segment: every character of the pattern is
\* given a stretch of the segment, * any stretch, ? and a literal exactly
\* one character, the literal that very character, and the stretches make
\* up the segment in order.
SegmentMatches(p, s) ==
  \E h \in [1..Len(p) -> 0..Len(s)] :
    /\ PrefixSum(h, Len(p)) = Len(s)
    /\ \A i \in 1..Len(p) :
         \/ p[i] = "*"
         \/ /\ h[i] = 1
            /\ p[i] = "?" \/ p[i] = s[PrefixSum(h, i)]

\* A pattern matches a target: every pattern segment is given a run of
\* target segments, ** any run, another segment exactly one that it
\* matches, and the runs make up the target in order.
GlobMatches(pattern, target) ==
  LET pp == split(pattern, "/")
      tp == split(target, "/")
  IN \E g \in [1..Len(pp) -> 0..Len(tp)] :
       /\ PrefixSum(g, Len(pp)) = Len(tp)
       /\ \A i \in 1..Len(pp) :
            \/ pp[i] = <<"*", "*">>
            \/ /\ g[i] = 1
               /\ SegmentMatches(pp[i], tp[PrefixSum(g, i)])

\* C28: branch_matches and _glob_match_path return True exactly when the
\* pattern's segments consume all of the target's segments, * and ? staying
\* within one segment and ** taking zero or more whole segments.
C28_GlobSegmentwise ==
  glob.called # "none" => (glob.result <=> GlobMatches(glob.pattern, glob.target))

\* a*/**/?b matched against ab/ab: ** takes no segment.
C28_Witness ==
  /\ glob.called = "branch_matches"
  /\ glob.pattern = <<"a", "*", "/", "*", "*", "/", "?", "b">>
  /\ glob.target = <<"a", "b", "/", "a", "b">>
  /\ glob.result

(***************************************************************************)
(* SpecEval: one run of the eval command: the event type is validated,     *)
(* the definitions are matched against the event (eval.py evaluate_event,  *)
(* paths_match), triggers are generated and the triggers file is written.  *)
(***************************************************************************)
MaxDefinitions == 2   \* most job definitions loaded

VALID_EVENT_TYPES ==
  {"push", "pull_request_opened", "pull_request_updated",
   "pull_request_merged", "pull_request_closed", "tag_created"}

\* The event contexts of the model.
EventTypes == {"push", "tag_created", "invalid_event"}
Branches == {<<>>, <<"m">>, <<"f", "/", "x">>}
ChangedFiles ==
  {NoChangedFiles, <<>>, <<<<"s", "/", "x">>>>, <<<<"s", "/", "d">>>>,
   <<<<"d">>>>, <<<<"s", "/", "d">>, <<"s", "/", "x">>>>}

\* The trigger and path configurations of the model's definitions.
TriggersConfigs ==
  [events : {<<>>, <<"push">>, <<"tag_created", "invalid_event">>},
   branches : {<<>>, <<<<"x">>, <<"f", "/", "*">>>>}]
PathsConfigs ==
  [include : {<<>>, <<<<"s", "/", "*", "*">>>>},
   exclude : {<<>>, <<<<"*", "*", "/", "d">>>>}]

\* The lists of definitions load_job_definitions can return; a definition's
\* name is its place in the list.
DefinitionLists(most) ==
  UNION {{[i \in 1..n |-> [name |-> i, triggers |-> t[i], paths |-> q[i]]] :
            t \in [1..n -> TriggersConfigs], q \in [1..n -> PathsConfigs]} :
         n \in 0..most}

\* `if not defn.triggers.events: continue` and
\* `if event_type not in defn.triggers.events: continue`
EventListed(defn, event_type) ==
  /\ defn.triggers.events # <<>>
  /\ \E k \in DOMAIN defn.triggers.events :
       defn.triggers.events[k] = event_type

\* A mutant of BranchAdmits: the branch filter is never applied.
BranchAdmitsAll(defn, branch) == TRUE

\* `if defn.triggers.branches and branch:` with the any() under it.
BranchAdmits(defn, branch) ==
  (defn.triggers.branches # <<>> /\ branch # <<>>) =>
    \E k \in DOMAIN defn.triggers.branches :
      branch_matches(defn.triggers.branches[k], branch)

\* paths_match: `if paths_config.include:` ... `if not included: continue`
Included(paths_config, file_path) ==
  paths_config.include # <<>> =>
    \E k \in DOMAIN paths_config.include :
      glob_match_path(paths_config.include[k], file_path)

\* A mutant of Excluded: exclude patterns are not looked at.
ExcludedNever(paths_config, file_path) == FALSE

\* paths_match: `if paths_config.exclude:` ... `if excluded: continue`
Excluded(paths_config, file_path) ==
  /\ paths_config.exclude # <<>>
  /\ \E k \in DOMAIN paths_config.exclude :
       glob_match_path(paths_config.exclude[k], file_path)

\* The `for file_path in changed_files` loop of paths_match.
RECURSIVE PathsLoop(_, _)
PathsLoop(paths_config, files) ==
  IF files = <<>> THEN FALSE
  ELSE IF ~Included(paths_config, Head(files)) THEN
         PathsLoop(paths_config, Tail(files))
  ELSE IF Excluded(paths_config, Head(files)) THEN
         PathsLoop(paths_config, Tail(files))
  ELSE TRUE

\* paths_match(paths_config, changed_files)
paths_match(paths_config, changed_files) ==
  IF paths_config.include = <<>> /\ paths_config.exclude = <<>> THEN TRUE
  ELSE IF changed_files = <<>>
       THEN paths_config.include = <<>> /\ paths_config.exclude = <<>>
  ELSE PathsLoop(paths_config, changed_files)

\* The path check of evaluate_event: skipped when changed_files is None.
PathsAdmit(defn, changed_files) ==
  (defn.paths.include # <<>> \/ defn.paths.exclude # <<>>) =>
    \/ changed_files = NoChangedFiles
    \/ paths_match(defn.paths, changed_files)

\* evaluate_event(definitions, event_type, branch, changed_files)
RECURSIVE evaluate_event(_, _, _, _)
evaluate_event(definitions, event_type, branch, changed_files) ==
  IF definitions = <<>> THEN <<>>
  ELSE LET defn == Head(definitions)
           rest == evaluate_event(Tail(definitions), event_type, branch,
                                  changed_files)
       IN IF ~EventListed(defn, event_type) THEN rest
          ELSE IF ~BranchAdmits(defn, branch) THEN rest
          ELSE IF ~PathsAdmit(defn, changed_files) THEN rest
          ELSE <<defn>> \o rest

\* generate_triggers: one JobTrigger per matched definition, named after it
\* and carrying the event in its environment.
generate_triggers(matched_definitions, event_context) ==
  [k \in DOMAIN matched_definitions |->
     [job_name |-> matched_definitions[k].name,
      REACTORCIDE_EVENT_TYPE |-> event_context.event_type,
      REACTORCIDE_BRANCH |-> event_context.branch]]

\* A mutant of ValidEventType: every event type is let through.
ValidEventTypeAny(event_type) == TRUE

\* The eval command's check of --event-type against the closed set.
ValidEventType(event_type) == event_type \in VALID_EVENT_TYPES

InitEval ==
  /\ secrets = {}
  /\ MaskOff
  /\ ThreadsOff
  /\ StreamOff
  /\ SeedOff
  /\ RunOff
  /\ PluginsOff
  /\ CycleOff
  /\ ServerOff
  /\ FlowOff
  /\ GitOff
  /\ PrepOff
  /\ ValOff
  /\ RaceOff
  /\ glob = NoGlob
  /\ ev \in [definitions : DefinitionLists(MaxDefinitions), event_type : EventTypes,
             branch : Branches, changed_files : ChangedFiles]
  /\ evalPc = "validate"
  /\ evalOut = NoEvalOut

\* The event type is validated: an unknown one ends the command with 1.
EvalValidate ==
  /\ evalPc = "validate"
  /\ IF ValidEventType(ev.event_type)
     THEN evalPc' = "match" /\ UNCHANGED evalOut
     ELSE evalPc' = "done" /\ evalOut' = [evalOut EXCEPT !.exit_code = 1]
  /\ UNCHANGED <<glob, ev, secrets, NotEval>>

\* evaluate_event is called on the loaded definitions.
EvalMatch ==
  /\ evalPc = "match"
  /\ evalOut' =
       [evalOut EXCEPT !.matched =
          evaluate_event(ev.definitions, ev.event_type, ev.branch,
                         ev.changed_files)]
  /\ evalPc' = "synthesize"
  /\ UNCHANGED <<glob, ev, secrets, NotEval>>

\* generate_triggers is called on the matched definitions.
EvalSynthesize ==
  /\ evalPc = "synthesize"
  /\ evalOut' = [evalOut EXCEPT !.triggers = generate_triggers(evalOut.matched, ev)]
  /\ evalPc' = "write"
  /\ UNCHANGED <<glob, ev, secrets, NotEval>>

\* The triggers are written to the triggers file when there are any, and
\* the command ends with 0.
EvalWrite ==
  /\ evalPc = "write"
  /\ evalOut' = [evalOut EXCEPT !.file_written = (evalOut.triggers # <<>>),
                                !.exit_code = 0]
  /\ evalPc' = "done"
  /\ UNCHANGED <<glob, ev, secrets, NotEval>>

NextEval ==
  \/ EvalValidate
  \/ EvalMatch
  \/ EvalSynthesize
  \/ EvalWrite

SpecEval == InitEval /\ [][NextEval]_vars

\* evaluate_event has returned.
Evaluated == evalPc \in {"synthesize", "write"} \/ evalOut.exit_code = 0

\* (a) of C26: the event type is one of the definition's events.
EventStated(d) ==
  \E k \in DOMAIN d.triggers.events : d.triggers.events[k] = ev.event_type

\* (b) of C26: no branch patterns, or the branch matches one of them.
BranchStated(d) ==
  \/ d.triggers.branches = <<>>
  \/ \E k \in DOMAIN d.triggers.branches :
       GlobMatches(d.triggers.branches[k], ev.branch)

\* C27's rule for a definition with a path filter.
PathsStated(d) ==
  \/ ev.changed_files = NoChangedFiles
  \/ \E i \in DOMAIN ev.changed_files :
       LET f == ev.changed_files[i]
       IN /\ \/ d.paths.include = <<>>
             \/ \E k \in DOMAIN d.paths.include :
                  GlobMatches(d.paths.include[k], f)
          /\ \A k \in DOMAIN d.paths.exclude :
               ~GlobMatches(d.paths.exclude[k], f)

\* (c) of C26: the path filter, when one is configured, admits the event.
FilterStated(d) ==
  (d.paths.include # <<>> \/ d.paths.exclude # <<>>) => PathsStated(d)

\* C26 as stated: evaluate_event returns exactly the definitions that list
\* the event type, whose branch patterns are empty or matched by the
\* event's branch, and whose path filter admits the event.
C26_MatchIff_AsStated ==
  Evaluated =>
    LET Stated(d) == EventStated(d) /\ BranchStated(d) /\ FilterStated(d)
    IN evalOut.matched = SelectSeq(ev.definitions, Stated)

\* C26 amended: as stated, but the branch patterns are also passed over
\* when the event carries no branch (an empty branch name).
C26_MatchIff ==
  Evaluated =>
    LET Amended(d) ==
          /\ EventStated(d)
          /\ ev.branch = <<>> \/ BranchStated(d)
          /\ FilterStated(d)
    IN evalOut.matched = SelectSeq(ev.definitions, Amended)

\* Two definitions were evaluated for an event without a branch: one with
\* branch patterns was matched, one that does not list the event was not.
C26_Witness ==
  /\ Evaluated
  /\ ev.branch = <<>>
  /\ Len(ev.definitions) = 2
  /\ Len(evalOut.matched) = 1
  /\ evalOut.matched[1].triggers.branches # <<>>
  /\ ~BranchStated(evalOut.matched[1])

\* C27: a definition with a path filter that passes the event and branch
\* checks is matched exactly when no changed-file list is available or
\* some changed file matches an include pattern (or there is none) and no
\* exclude pattern.
C27_PathFilter ==
  Evaluated =>
    \A i \in DOMAIN ev.definitions :
      LET d == ev.definitions[i]
      IN (/\ d.paths.include # <<>> \/ d.paths.exclude # <<>>
          /\ EventStated(d)
          /\ ev.branch = <<>> \/ BranchStated(d))
         => ((\E k \in DOMAIN evalOut.matched : evalOut.matched[k] = d)
               <=> PathsStated(d))

\* A definition with include and exclude patterns was matched on the
\* strength of the second changed file, the first one being excluded.
C27_Witness ==
  /\ Evaluated
  /\ ev.changed_files = <<<<"s", "/", "d">>, <<"s", "/", "x">>>>
  /\ Len(evalOut.matched) = 1
  /\ evalOut.matched[1].paths.include # <<>>
  /\ evalOut.matched[1].paths.exclude # <<>>
  /\ evalOut.matched[1].triggers.branches # <<>>
  /\ ev.branch # <<>>

RemoteHeads == {"main", "feature"}
TipOf(ref) ==
  CASE ref = "main" -> "c1"
    [] ref = "feature" -> "c2"
    [] OTHER -> "c3"
\* The refs a job may ask for: none, a branch, a commit of a branch, the
\* commit of the pull-request head, a name the remote does not know.
SourceRefs == {"", "main", "feature", "c1", "c2", "c3", "nosuch"}

\* git clone: every branch of the remote and the commits they reach; the
\* default branch is checked out.
CloneObjects == {TipOf(b) : b \in RemoteHeads}

\* git checkout <ref> resolves a branch of the clone or a commit in its
\* object store.
Resolves(g, ref) == ref \in g.branches \/ ref \in g.objects
Resolved(ref) == IF ref \in RemoteHeads THEN TipOf(ref) ELSE ref

GitCommandError(origin) == <<"GitCommandError", origin>>

InitGit ==
  /\ MaskOff
  /\ ThreadsOff
  /\ StreamOff
  /\ SeedOff
  /\ RunOff
  /\ PluginsOff
  /\ CycleOff
  /\ ServerOff
  /\ FlowOff
  /\ EvalOff
  /\ PrepOff
  /\ ValOff
  /\ RaceOff
  /\ secrets = {}
  /\ \E ref \in SourceRefs, reachable \in BOOLEAN, pull \in BOOLEAN,
        target \in {"absent", "stale"} :
       git = [NoGit EXCEPT !.source_ref = ref,
                           !.remote = [reachable |-> reachable, pull |-> pull],
                           !.target = target]
  /\ gitPc = "start"

\* if target_path.exists(): shutil.rmtree(target_path)
GitRmtree ==
  /\ gitPc = "start"
  /\ git' = [git EXCEPT !.target = "absent"]
  /\ gitPc' = "clone"
  /\ UNCHANGED <<secrets, NotGit>>

\* repo = Repo.clone_from(source_url, target_path)
GitClone ==
  /\ gitPc = "clone"
  /\ IF git.remote.reachable
       THEN /\ git' = [git EXCEPT !.target = "clone",
                                  !.objects = CloneObjects,
                                  !.branches = RemoteHeads,
                                  !.head = TipOf("main"),
                                  !.commands = Append(@, <<"clone", "", "ok">>)]
            /\ gitPc' = IF git.source_ref # "" THEN "checkout" ELSE "return"
       ELSE /\ git' = [git EXCEPT !.commands = Append(@, <<"clone", "", "failed">>),
                                  !.raised = GitCommandError("clone")]
            /\ gitPc' = "except"
  /\ UNCHANGED <<secrets, NotGit>>

\* if source_ref: repo.git.checkout(source_ref)
GitCheckout ==
  /\ gitPc = "checkout"
  /\ IF Resolves(git, git.source_ref)
       THEN /\ git' = [git EXCEPT !.head = Resolved(git.source_ref),
                                  !.commands = Append(@, <<"checkout", git.source_ref, "ok">>)]
            /\ gitPc' = "return"
       ELSE /\ git' = [git EXCEPT !.commands = Append(@, <<"checkout", git.source_ref, "failed">>),
                                  !.raised = GitCommandError("checkout")]
            /\ gitPc' = "except"
  /\ UNCHANGED <<secrets, NotGit>>

\* return target_path
GitReturn ==
  /\ gitPc = "return"
  /\ git' = [git EXCEPT !.returned = TRUE]
  /\ gitPc' = "done"
  /\ UNCHANGED <<secrets, NotGit>>

\* except Exception as e: log the failure and raise it again.
GitExcept ==
  /\ gitPc = "except"
  /\ git' = [git EXCEPT !.logged = TRUE]
  /\ gitPc' = "done"
  /\ UNCHANGED <<secrets, NotGit>>

NextGit ==
  \/ GitRmtree
  \/ GitClone
  \/ GitCheckout
  \/ GitReturn
  \/ GitExcept

SpecGit == InitGit /\ [][NextGit]_vars

\* C30: when the checkout that follows the clone fails, the preparation
\* goes on with a fetch of <ref>:<ref> from origin and a second checkout,
\* and it raises only if that second checkout fails as well.
C30_FetchFallback ==
  (/\ gitPc = "done"
   /\ Len(git.commands) >= 2
   /\ git.commands[2] = <<"checkout", git.source_ref, "failed">>)
    => /\ Len(git.commands) = 4
       /\ git.commands[3][1] = "fetch"
       /\ git.commands[3][2] = git.source_ref
       /\ git.commands[4][1] = "checkout"
       /\ git.commands[4][2] = git.source_ref
       /\ git.raised # NoError <=> git.commands[4][3] = "failed"

(***************************************************************************)
(* SpecPrep: one call of prepare_source (tree src) or prepare_ci_source    *)
(* (tree ci) with the strategy it dispatches to (source_prep.py).          *)
(***************************************************************************)

SourceTypes == {"none", "git", "copy", "tarball", "hg", "svn", "rsync"}
Strategies == {"git", "copy", "tarball", "hg", "svn"}
\* What source_url names: nothing (unset), a path that does not exist, a
\* file, a directory (for git: a repository).
SourceUrls == {"none", "missing", "file", "dir"}

InitPrep ==
  /\ secrets = {}
  /\ MaskOff
  /\ ThreadsOff
  /\ StreamOff
  /\ SeedOff
  /\ RunOff
  /\ PluginsOff
  /\ CycleOff
  /\ ServerOff
  /\ FlowOff
  /\ EvalOff
  /\ GitOff
  /\ ValOff
  /\ RaceOff
  /\ \E tree \in {"src", "ci"}, type \in SourceTypes, url \in SourceUrls,
        fails \in BOOLEAN, target \in {"absent", "stale"} :
       prep = [NoPrep EXCEPT !.tree = tree, !.source_type = type,
                             !.source_url = url, !.op_fails = fails,
                             !.before = target, !.target = target]
  /\ prepPc = "dispatch"

\* prepare_source / prepare_ci_source: no source type, the dispatch on the
\* type with its source_url check, the ValueError of an unknown type.
PrepDispatch ==
  /\ prepPc = "dispatch"
  /\ IF prep.source_type = "none"
       THEN /\ prep' = [prep EXCEPT !.returned = "None"]
            /\ prepPc' = "done"
       ELSE IF prep.source_type \notin Strategies
       THEN /\ prep' = [prep EXCEPT !.raised = <<"ValueError", "source_type">>]
            /\ prepPc' = "done"
       ELSE IF prep.source_url = "none"
       THEN /\ prep' = [prep EXCEPT !.raised = <<"ValueError", "source_url">>]
            /\ prepPc' = "done"
       ELSE /\ prep' = [prep EXCEPT !.strategy = prep.source_type]
            /\ prepPc' = prep.source_type
  /\ UNCHANGED <<secrets, NotPrep>>

\* `if target_path.exists(): shutil.rmtree(target_path)`
Rmtree(target) == "absent"

\* _prepare_git_source: the purge, then clone and checkout; a failure is
\* logged and raised again.
PrepGit ==
  /\ prepPc = "git"
  /\ IF prep.source_url = "dir" /\ ~prep.op_fails
       THEN prep' = [prep EXCEPT !.target = "fresh", !.returned = "target_path"]
       ELSE \E left \in {Rmtree(prep.target), "partial"} :
              prep' = [prep EXCEPT !.target = left,
                                   !.raised = <<"GitCommandError", "git">>]
  /\ prepPc' = "done"
  /\ UNCHANGED <<secrets, NotPrep>>

\* _prepare_copy_source up to the purge: the checks of the source path
\* come first and raise without touching the destination.
PrepCopyCheck ==
  /\ prepPc = "copy"
  /\ IF prep.source_url = "missing"
       THEN /\ prep' = [prep EXCEPT !.raised = <<"FileNotFoundError", "copy">>]
            /\ prepPc' = "done"
       ELSE IF prep.source_url # "dir"
       THEN /\ prep' = [prep EXCEPT !.raised = <<"ValueError", "copy">>]
            /\ prepPc' = "done"
       ELSE /\ prep' = [prep EXCEPT !.target = Rmtree(@)]
            /\ prepPc' = "copytree"
  /\ UNCHANGED <<secrets, NotPrep>>

\* shutil.copytree(source_path, target_path); a failure is logged and
\* raised again, with what was copied so far left in place.
PrepCopyTree ==
  /\ prepPc = "copytree"
  /\ IF prep.op_fails
       THEN \E left \in {prep.target, "partial"} :
              prep' = [prep EXCEPT !.target = left,
                                   !.raised = <<"OSError", "copytree">>]
       ELSE prep' = [prep EXCEPT !.target = "fresh", !.returned = "target_path"]
  /\ prepPc' = "done"
  /\ UNCHANGED <<secrets, NotPrep>>

\* _prepare_tarball_source, _prepare_hg_source, _prepare_svn_source: log
\* and raise NotImplementedError.
PrepStub ==
  /\ prepPc \in {"tarball", "hg", "svn"}
  /\ prep' = [prep EXCEPT !.raised = <<"NotImplementedError", prepPc>>]
  /\ prepPc' = "done"
  /\ UNCHANGED <<secrets, NotPrep>>

NextPrep ==
  \/ PrepDispatch
  \/ PrepGit
  \/ PrepCopyCheck
  \/ PrepCopyTree
  \/ PrepStub

SpecPrep == InitPrep /\ [][NextPrep]_vars

\* C31: once a strategy has been run for a tree, nothing of what the
\* destination held before the call is still there, whether the strategy
\* succeeded or failed.
C31_DestinationPurged ==
  (prepPc = "done" /\ prep.strategy # "none") => prep.target # "stale"

(***************************************************************************)
(* SpecVal: configuration validation (validation.py) as cli.run calls it   *)
(* and as a direct caller does, with or without the                        *)
(* require_container_runtime keyword.                                      *)
(***************************************************************************)

\* The parameters `def validate_config(config, check_files=True)` accepts.
validate_config_params == {"config", "check_files"}

\* The keywords of a call: cli.run ("run") and a caller that states the
\* switch pass require_container_runtime; cli.run_job, which always runs
\* the container, and a plain caller leave it out.
CliCallers == {"run", "run_job"}
CallKeywords(caller) ==
  IF caller \in {"run_job", "plain"} THEN {"config", "check_files"}
  ELSE {"config", "check_files", "require_container_runtime"}

\* Python's binding of a call's keywords to the parameters.
BindRaises(caller) ==
  IF CallKeywords(caller) \subseteq validate_config_params THEN NoError
  ELSE <<"TypeError", "validate_config">>

\* _validate_required_fields: code_dir and job_dir are unset or set
\* together in the model.
validate_required_fields(config) ==
  (IF ~config.job_command THEN <<"job_command">> ELSE <<>>)
    \o (IF ~config.runner_image THEN <<"runner_image">> ELSE <<>>)
    \o (IF config.dirs = "unset" THEN <<"code_dir", "job_dir">> ELSE <<>>)

\* _validate_directory_paths: a relative path fails both checks, an
\* absolute path outside /job the second one.
validate_directory_paths(config) ==
  (IF config.dirs = "relative" THEN <<"code_dir", "job_dir">> ELSE <<>>)
    \o (IF config.dirs \in {"relative", "outside"}
          THEN <<"code_dir", "job_dir">> ELSE <<>>)

\* _validate_external_dependencies(self): shutil.which("docker").
validate_external_dependencies(docker) ==
  IF ~docker THEN <<"system">> ELSE <<>>

\* _validate_file_system: ./job exists but is not a directory.
validate_file_system(job_path) ==
  IF job_path = "file" THEN <<"filesystem">> ELSE <<>>

\* ConfigValidator.validate_config: the errors, in the order of the checks
\* (job_env is not set in the model).
ValidationErrors(v) ==
  validate_required_fields(v.config)
    \o validate_directory_paths(v.config)
    \o validate_external_dependencies(v.docker)
    \o (IF v.check_files THEN validate_file_system(v.job_path) ELSE <<>>)

ValConfigs ==
  [job_command : BOOLEAN, runner_image : BOOLEAN,
   dirs : {"unset", "relative", "outside", "job"}]

InitVal ==
  /\ secrets = {}
  /\ MaskOff
  /\ ThreadsOff
  /\ StreamOff
  /\ SeedOff
  /\ RunOff
  /\ PluginsOff
  /\ CycleOff
  /\ ServerOff
  /\ FlowOff
  /\ EvalOff
  /\ GitOff
  /\ PrepOff
  /\ RaceOff
  /\ \E caller \in {"run", "run_job", "switch", "plain"}, switch \in BOOLEAN,
        docker \in BOOLEAN, files \in BOOLEAN, config \in ValConfigs,
        job_path \in {"absent", "dir", "file"} :
       /\ caller = "plain" => ~switch
       /\ caller = "run_job" => switch
       /\ caller \in CliCallers => files
       /\ val = [NoVal EXCEPT !.caller = caller,
                              !.require_container_runtime = switch,
                              !.docker = docker, !.check_files = files,
                              !.config = config, !.job_path = job_path]
  /\ valPc = "call"

\* The call validate_config(config, check_files=..., ...): the keywords
\* are bound to the parameters, or TypeError is raised.
ValCall ==
  /\ valPc = "call"
  /\ IF BindRaises(val.caller) # NoError
       THEN /\ val' = [val EXCEPT !.raised = BindRaises(val.caller)]
            /\ valPc' = IF val.caller \in CliCallers THEN "cli_except" ELSE "done"
       ELSE /\ val' = val
            /\ valPc' = "validate"
  /\ UNCHANGED <<secrets, NotVal>>

\* The body of ConfigValidator.validate_config.
ValValidate ==
  /\ valPc = "validate"
  /\ val' = [val EXCEPT !.errors = ValidationErrors(val)]
  /\ valPc' = IF val.caller \in CliCallers THEN "cli_is_valid" ELSE "done"
  /\ UNCHANGED <<secrets, NotVal>>

\* cli.run and cli.run_job: `if not validation_result.is_valid: raise
\* typer.Exit(1)`, otherwise the command goes on past validation.
CliIsValid ==
  /\ valPc = "cli_is_valid"
  /\ IF val.errors # <<>>
       THEN /\ val' = [val EXCEPT !.exit = 1]
            /\ valPc' = "done"
       ELSE /\ val' = val
            /\ valPc' = "post_validation"
  /\ UNCHANGED <<secrets, NotVal>>

\* cli.run: `except Exception as e:` logs "Unexpected error" and raises
\* typer.Exit(1).
CliExcept ==
  /\ valPc = "cli_except"
  /\ val' = [val EXCEPT !.exit = 1]
  /\ valPc' = "done"
  /\ UNCHANGED <<secrets, NotVal>>

NextVal ==
  \/ ValCall
  \/ ValValidate
  \/ CliIsValid
  \/ CliExcept

SpecVal == InitVal /\ [][NextVal]_vars

\* The configuration and the file system give no cause for an error.
OtherwiseValid(v) ==
  /\ v.config = [job_command |-> TRUE, runner_image |-> TRUE, dirs |-> "job"]
  /\ v.check_files => v.job_path # "file"

\* C32: with require_container_runtime false an otherwise valid
\* configuration validates without error although docker is not on PATH,
\* and cli.run goes on past validation; with it true the missing runtime
\* gives exactly one error.
C32_RuntimeCheckOnlyInContainerMode ==
  (valPc \in {"done", "post_validation"} /\ ~val.docker /\ OtherwiseValid(val)) =>
    IF val.require_container_runtime
      THEN val.raised = NoError /\ val.errors = <<"system">>
      ELSE /\ val.raised = NoError /\ val.errors = <<>>
           /\ val.caller \in CliCallers => valPc = "post_validation"
====
